---- MODULE Spec2Model ----
(***************************************************************************)
(* A model of StorageMergeTree (src/Storages/StorageMergeTree.cpp): the    *)
(* block-number allocator and the committing-blocks set, the part          *)
(* registry with its busy markers, the mutation registry, the partition    *)
(* operations and the lightweight-update coordinator.                      *)
(***************************************************************************)
EXTENDS Integers, Sequences, FiniteSets, TLC

(***************************************************************************)
(* Bounds of the model.                                                    *)
(***************************************************************************)
\* the allocator stops handing out numbers at this value
MaxBlock == 3
\* the high-water mark found on disk at construction is at most this
MaxInitialIncrement == 1
\* an empty cover part is not created above this level
MaxLevel == 2
\* the source table of REPLACE PARTITION FROM holds at most this many parts
MaxSourceParts == 1
\* a crash leaves at most this many tmp_mutation_* files
MaxTmpFiles == 1
\* the value of the setting max_parts_to_move
max_parts_to_move == 2
\* the value of the setting max_number_of_merges_with_ttl_in_pool
max_number_of_merges_with_ttl_in_pool == 2

Updaters == {"u1", "u2"}
Inserters == {"i1"}
LockThreads == {"a", "b"}
Tasks == {"t1", "t2"}
DdlThreads == {"d1"}
\* a partition id is a sequence of name components; a patch partition starts
\* with the patch prefix
PATCH_PART_PREFIX == "patch"
PartitionIds == {<<"p">>, <<"q">>}
Columns == {"a", "b"}
UpdateModes == {"sync", "auto", "async"}
\* Tx::PrehistoricTID and the transactions of the model
PrehistoricTID == "prehistoric"
Transactions == {"T1", "T2"}
NoTransaction == "none"
NoBlock == 0

VARIABLES
    increment,                          \* SimpleIncrement increment
    committing_blocks,                  \* CommittingBlocksSet committing_blocks
    alloc_log,                          \* history: every allocation, in allocation order
    data_parts,                         \* the part registry: part-info, state, creation tid
    currently_merging_mutating_parts,   \* DataParts currently_merging_mutating_parts
    tasks,                              \* the live MergeMutateSelectedEntry objects
    merges_blocker,                     \* merges_blocker: the table-wide cancel counter
    partition_blockers,                 \* merges_blocker: the per-partition cancel counters
    operations_lock,                    \* lockOperationsWithParts: the owner
    current_mutations_by_version,       \* std::map<UInt64, MergeTreeMutationEntry>
    mutation_counters,                  \* MutationCounters mutation_counters
    mutation_files,                     \* the mutation_<V>.txt files on disk
    failed_parts,                       \* mutation_backoff_policy: the failed parts
    running_txns,                       \* TransactionLog: the running transactions
    kill,                               \* the killMutation call in progress
    ins,                                \* insert threads
    mut,                                \* the startMutation call in progress
    upd,                                \* updateLightweight calls in progress
    ddl,                                \* partition operations in progress
    opt,                                \* the OPTIMIZE call in progress
    sync_mutex,                         \* lightweight_updates_sync.sync_mutex owner
    in_progress_columns,                \* lightweight_updates_sync column table
    shutdown_called,                    \* std::atomic<bool> shutdown_called
    shutdown_pc,                        \* the shutdown call in progress
    mutation_wait_mutex,                \* std::mutex mutation_wait_mutex: the owner
    waiter,                             \* the waitForMutation call in progress
    mutations_loaded,                   \* whether loadMutations has run
    tmp_mutation_files,                 \* the tmp_mutation_* files on disk
    mutation_file_entries,              \* what the mutation_* files held at startup
    dest_data_parts,                    \* the parts of the destination table of MOVE PARTITION
    dest_increment,                     \* the block counter of the destination table
    lockers,                            \* the locks each thread holds, and where it is
    merges_with_ttl_counter,            \* MergeList::merges_with_ttl_counter
    startup,                            \* the startup call, and what it has started
    scheduler,                          \* the scheduleDataProcessingJob call, the cleanup timers
    alter,                              \* the alter-lock, the ALTER and the mutate call in progress
    committing_blocks_cv,               \* committing_blocks_cv: where each update stands in its wait
    cleared,                            \* history: what the last clearOldMutations call left
    granted_roles,                      \* a GrantedRoles object: roles, roles_with_admin_option
    max_level                           \* the last getMaxLevelInBetween call and what it gave

vars ==
    <<increment, committing_blocks, alloc_log, data_parts,
      currently_merging_mutating_parts, tasks, merges_blocker, partition_blockers,
      operations_lock, current_mutations_by_version, mutation_counters, mutation_files,
      failed_parts, running_txns, kill, ins, mut, upd, ddl, opt, sync_mutex,
      in_progress_columns, shutdown_called, shutdown_pc, mutation_wait_mutex, waiter,
      mutations_loaded, tmp_mutation_files, mutation_file_entries,
      dest_data_parts, dest_increment, lockers, merges_with_ttl_counter, startup,
      scheduler, alter, committing_blocks_cv, cleared, granted_roles,
      max_level>>

(***************************************************************************)
(* Part-info and parts.                                                    *)
(***************************************************************************)
PartInfo(partition_id, min_block, max_block, level, mutation) ==
    [partition_id |-> partition_id, min_block |-> min_block, max_block |-> max_block,
     level |-> level, mutation |-> mutation]

Part(info, state, creation_tid) ==
    [info |-> info, state |-> state, creation_tid |-> creation_tid, empty |-> FALSE]

\* a part without rows, as createEmptyPart makes it
EmptyPart(info, state, creation_tid) ==
    [info |-> info, state |-> state, creation_tid |-> creation_tid, empty |-> TRUE]

ActiveParts(parts) == {p \in parts : p.state = "Active"}

ActiveInfos(parts) == {p.info : p \in ActiveParts(parts)}

\* the parts of the set are moved to Outdated
Outdate(parts, infos) ==
    {IF p.info \in infos /\ p.state = "Active" THEN [p EXCEPT !.state = "Outdated"] ELSE p
        : p \in parts}

\* partition_id.starts_with(MergeTreePartInfo::PATCH_PART_PREFIX)
IsPatchPartition(partition_id) == Head(partition_id) = PATCH_PART_PREFIX

PatchPartitionOf(partition_id) == <<PATCH_PART_PREFIX>> \o partition_id

\* MergeTreeData::getAllPartitionIds: the partition ids of the Active parts
GetAllPartitionIds(parts) == {p.info.partition_id : p \in ActiveParts(parts)}

\* a covers b
Covers(a, b) ==
    /\ a.partition_id = b.partition_id
    /\ a.min_block <= b.min_block
    /\ a.max_block >= b.max_block
    /\ a.mutation >= b.mutation

\* MergeTreePartInfo::contains: the block range, the level and the mutation
Contains(a, b) ==
    /\ a.partition_id = b.partition_id
    /\ a.min_block <= b.min_block
    /\ a.max_block >= b.max_block
    /\ a.level >= b.level
    /\ a.mutation >= b.mutation

\* MergeTreeData::renameTempPartAndReplace followed by the commit of its transaction:
\* a part whose name is taken or that an Active part contains is refused; the Active
\* parts the new part contains become Outdated and the new part Active
CanBeAdded(parts, new_part) ==
    /\ \A p \in parts : p.info # new_part.info
    /\ \A p \in ActiveParts(parts) : ~Contains(p.info, new_part.info)

RenameTempPartAndReplace(parts, new_part) ==
    IF CanBeAdded(parts, new_part)
    THEN Outdate(parts, {p.info : p \in {q \in ActiveParts(parts) :
                                            Contains(new_part.info, q.info)}})
            \cup {new_part}
    ELSE parts

\* MergeTreePartInfo::getDataVersion
Max(a, b) == IF a >= b THEN a ELSE b

DataVersion(info) == Max(info.max_block, info.mutation)

(***************************************************************************)
(* Block-number allocator.                                                 *)
(***************************************************************************)
CommittingBlock(op, number) == [op |-> op, number |-> number]

BlockOps == {"NewPart", "Mutation", "Update"}

StaleBlockNumber(value) == value

\* increment.get(): the counter is advanced and the new value returned
NextBlockNumber(value) == value + 1

CanAllocate == increment < MaxBlock

\* the block allocateBlockNumber(op) returns
AllocatedBlock(op) == CommittingBlock(op, NextBlockNumber(increment))

\* allocateBlockNumber(op), as the new values of the allocator's state
AllocateBlockNumber(op) ==
    /\ CanAllocate
    /\ increment' = NextBlockNumber(increment)
    /\ committing_blocks' = committing_blocks \cup {AllocatedBlock(op)}

\* removeCommittingBlock(block): erase(block) goes by the set's key, the number
RemoveCommittingBlock(blocks, number) == {b \in blocks : b.number # number}

\* the committing set in the order of the std::set (ascending block number)
RECURSIVE SortedBlocks(_)
SortedBlocks(blocks) ==
    IF blocks = {} THEN <<>>
    ELSE LET least == CHOOSE b \in blocks : \A c \in blocks : b.number <= c.number
         IN <<least>> \o SortedBlocks(blocks \ {least})

AllCommittedIgnoringMutations(sorted, i, max_block_number) ==
    \A k \in i..Len(sorted) :
        sorted[k].number < max_block_number => sorted[k].op # "NewPart"

\* the all_committed predicate of waitForCommittingInsertsAndMutations: the loop
\* from the i-th block of the set on
RECURSIVE AllCommittedFrom(_, _, _)
AllCommittedFrom(sorted, i, max_block_number) ==
    IF i > Len(sorted) THEN TRUE
    ELSE IF sorted[i].number >= max_block_number THEN TRUE
    ELSE IF sorted[i].op # "Update" THEN FALSE
    ELSE AllCommittedFrom(sorted, i + 1, max_block_number)

AllCommitted(blocks, max_block_number) ==
    AllCommittedFrom(SortedBlocks(blocks), 1, max_block_number)

\* one allocateBlockNumber call of any kind, recorded in the allocation history
AllocateAndLog(op) ==
    /\ AllocateBlockNumber(op)
    /\ alloc_log' = Append(alloc_log, [op |-> op, number |-> AllocatedBlock(op).number,
                                       before |-> increment])
    /\ UNCHANGED <<data_parts, currently_merging_mutating_parts, tasks, merges_blocker,
                   partition_blockers, operations_lock, current_mutations_by_version,
                   mutation_counters, mutation_files, failed_parts, running_txns, kill, ins, mut,
                   upd, ddl, opt, sync_mutex, in_progress_columns, shutdown_called, shutdown_pc,
                   mutation_wait_mutex, waiter, mutations_loaded, tmp_mutation_files,
                   mutation_file_entries, dest_data_parts, dest_increment, lockers,
                   merges_with_ttl_counter, startup, scheduler, alter, committing_blocks_cv,
                   cleared, granted_roles, max_level>>

\* one removeCommittingBlock call
ReleaseBlock(number) ==
    /\ \E b \in committing_blocks : b.number = number
    /\ committing_blocks' = RemoveCommittingBlock(committing_blocks, number)
    /\ UNCHANGED <<increment, alloc_log, data_parts, currently_merging_mutating_parts, tasks,
                   merges_blocker, partition_blockers, operations_lock,
                   current_mutations_by_version, mutation_counters, mutation_files, failed_parts,
                   running_txns, kill, ins, mut, upd, ddl, opt, sync_mutex, in_progress_columns,
                   shutdown_called, shutdown_pc, mutation_wait_mutex, waiter, mutations_loaded,
                   tmp_mutation_files, mutation_file_entries, dest_data_parts, dest_increment,
                   lockers, merges_with_ttl_counter, startup, scheduler, alter,
                   committing_blocks_cv, cleared, granted_roles, max_level>>

\* the counter after n calls of increment.get()
RECURSIVE Advance(_, _)
Advance(counter, n) == IF n = 0 THEN counter ELSE Advance(NextBlockNumber(counter), n - 1)

(***************************************************************************)
(* Inserts.  A write allocates its block, stages the part and installs it  *)
(* later; ATTACH PARTITION and restore allocate and install in one         *)
(* critical section of the parts lock.                                     *)
(***************************************************************************)
IdleInsert == [pc |-> "idle", block |-> NoBlock, partition_id |-> <<>>]

NewPartInfo(partition_id, number) == PartInfo(partition_id, number, number, 0, 0)

InsertAllocate(i) ==
    /\ ins[i].pc = "idle"
    /\ \E pid \in PartitionIds :
        ins' = [ins EXCEPT ![i] = [pc |-> "allocated",
                                   block |-> AllocatedBlock("NewPart").number,
                                   partition_id |-> pid]]
    /\ AllocateBlockNumber("NewPart")
    /\ UNCHANGED <<alloc_log, data_parts, currently_merging_mutating_parts, tasks, merges_blocker,
                   partition_blockers, operations_lock, current_mutations_by_version,
                   mutation_counters, mutation_files, failed_parts, running_txns, kill, mut, upd,
                   ddl, opt, sync_mutex, in_progress_columns, shutdown_called, shutdown_pc,
                   mutation_wait_mutex, waiter, mutations_loaded, tmp_mutation_files,
                   mutation_file_entries, dest_data_parts, dest_increment, lockers,
                   merges_with_ttl_counter, startup, scheduler, alter, committing_blocks_cv,
                   cleared, granted_roles, max_level>>

InsertCommit(i) ==
    /\ ins[i].pc = "allocated"
    /\ data_parts' = data_parts \cup
            {Part(NewPartInfo(ins[i].partition_id, ins[i].block), "Active", PrehistoricTID)}
    /\ committing_blocks' = RemoveCommittingBlock(committing_blocks, ins[i].block)
    /\ ins' = [ins EXCEPT ![i] = IdleInsert]
    /\ UNCHANGED <<increment, alloc_log, currently_merging_mutating_parts, tasks, merges_blocker,
                   partition_blockers, operations_lock, current_mutations_by_version,
                   mutation_counters, mutation_files, failed_parts, running_txns, kill, mut, upd,
                   ddl, opt, sync_mutex, in_progress_columns, shutdown_called, shutdown_pc,
                   mutation_wait_mutex, waiter, mutations_loaded, tmp_mutation_files,
                   mutation_file_entries, dest_data_parts, dest_increment, lockers,
                   merges_with_ttl_counter, startup, scheduler, alter, committing_blocks_cv,
                   cleared, granted_roles, max_level>>

InsertRollback(i) ==
    /\ ins[i].pc = "allocated"
    /\ committing_blocks' = RemoveCommittingBlock(committing_blocks, ins[i].block)
    /\ ins' = [ins EXCEPT ![i] = IdleInsert]
    /\ UNCHANGED <<increment, alloc_log, data_parts, currently_merging_mutating_parts, tasks,
                   merges_blocker, partition_blockers, operations_lock,
                   current_mutations_by_version, mutation_counters, mutation_files, failed_parts,
                   running_txns, kill, mut, upd, ddl, opt, sync_mutex, in_progress_columns,
                   shutdown_called, shutdown_pc, mutation_wait_mutex, waiter, mutations_loaded,
                   tmp_mutation_files, mutation_file_entries, dest_data_parts, dest_increment,
                   lockers, merges_with_ttl_counter, startup, scheduler, alter,
                   committing_blocks_cv, cleared, granted_roles, max_level>>

\* fillNewPartName: the part takes the freshly allocated block as its range
FillNewPartName(info, number) == [info EXCEPT !.min_block = number, !.max_block = number]

\* fillNewPartNameAndResetLevel, merging mode Ordinary
FillNewPartNameAndResetLevel(info, number) ==
    [info EXCEPT !.min_block = number, !.max_block = number, !.mutation = 0, !.level = 0]

\* a part found in detached/: it keeps the info of its old name
DetachedParts == {PartInfo(pid, 1, 1, level, 0) : pid \in PartitionIds, level \in 0..1}

\* attachPartition / attachRestoredParts: the name is filled, the part added and the
\* transaction committed under one hold of the parts lock, and the block holder is
\* destroyed at the end of the scope
AttachPart(tid, partition_id) ==
    /\ CanAllocate
    /\ \E loaded \in {info \in DetachedParts : info.partition_id = partition_id} :
        data_parts' = data_parts \cup
            {Part(FillNewPartNameAndResetLevel(loaded, AllocatedBlock("NewPart").number),
                  "Active", tid)}
    /\ increment' = NextBlockNumber(increment)
    /\ UNCHANGED <<committing_blocks, alloc_log, currently_merging_mutating_parts, tasks,
                   merges_blocker, partition_blockers, operations_lock,
                   current_mutations_by_version, mutation_counters, mutation_files, failed_parts,
                   running_txns, kill, ins, mut, upd, ddl, opt, sync_mutex, in_progress_columns,
                   shutdown_called, shutdown_pc, mutation_wait_mutex, waiter, mutations_loaded,
                   tmp_mutation_files, mutation_file_entries, dest_data_parts, dest_increment,
                   lockers, merges_with_ttl_counter, startup, scheduler, alter,
                   committing_blocks_cv, cleared, granted_roles, max_level>>

(***************************************************************************)
(* startMutation.                                                          *)
(***************************************************************************)
IdleMutation == [pc |-> "idle", block |-> NoBlock, tid |-> PrehistoricTID]

NoPart == PartInfo(<<>>, 0, 0, 0, 0)

\* MergeTreeMutationEntry as startMutation creates it
MutationEntry(tid) ==
    [tid |-> tid, is_done |-> FALSE, latest_failed_part |-> NoPart, latest_fail_reason |-> "",
     commands |-> <<"UPDATE">>]

\* startMutation up to entry.commit(version): the entry is created, the Mutation block
\* allocated and the entry's file committed
StartMutationBegins(tid) ==
    /\ mutations_loaded
    /\ mut.pc = "idle"
    /\ mut' = [pc |-> "allocated", block |-> AllocatedBlock("Mutation").number, tid |-> tid]
    /\ AllocateBlockNumber("Mutation")
    /\ mutation_files' = mutation_files \cup {AllocatedBlock("Mutation").number}

\* startMutation from try_emplace on: the entry is put into the map under the background
\* mutex and the counters are incremented; block_holder is destroyed at the return
StartMutationRegisters ==
    /\ mut.pc = "allocated"
    /\ mut.block \notin DOMAIN current_mutations_by_version
    /\ current_mutations_by_version' =
            current_mutations_by_version @@ (mut.block :> MutationEntry(mut.tid))
    /\ mutation_counters' = mutation_counters + 1
    /\ committing_blocks' = RemoveCommittingBlock(committing_blocks, mut.block)
    /\ mut' = IdleMutation

\* the entry is created, the Mutation block allocated and the entry's file committed
StartMutationAllocate(tid) ==
    /\ StartMutationBegins(tid)
    /\ UNCHANGED <<alloc_log, data_parts, currently_merging_mutating_parts, tasks, merges_blocker,
                   partition_blockers, operations_lock, current_mutations_by_version,
                   mutation_counters, failed_parts, running_txns, kill, ins, upd, ddl, opt,
                   sync_mutex, in_progress_columns, shutdown_called, shutdown_pc,
                   mutation_wait_mutex, waiter, mutations_loaded, tmp_mutation_files,
                   mutation_file_entries, dest_data_parts, dest_increment, lockers,
                   merges_with_ttl_counter, startup, scheduler, alter, committing_blocks_cv,
                   cleared, granted_roles, max_level>>

\* the entry is put into the map under the background mutex and the counters are
\* incremented; block_holder is destroyed when the function returns
StartMutationRegister ==
    /\ StartMutationRegisters
    /\ UNCHANGED <<increment, alloc_log, data_parts, currently_merging_mutating_parts, tasks,
                   merges_blocker, partition_blockers, operations_lock, mutation_files,
                   failed_parts, running_txns, kill, ins, upd, ddl, opt, sync_mutex,
                   in_progress_columns, shutdown_called, shutdown_pc, mutation_wait_mutex, waiter,
                   mutations_loaded, tmp_mutation_files, mutation_file_entries, dest_data_parts,
                   dest_increment, lockers, merges_with_ttl_counter, startup, scheduler, alter,
                   committing_blocks_cv, cleared, granted_roles, max_level>>

(***************************************************************************)
(* Lightweight updates: getLockForLightweightUpdate and updateLightweight.  *)
(***************************************************************************)
IdleUpdate ==
    [pc |-> "idle", mode |-> "async", columns |-> {}, block |-> NoBlock,
     all_partitions |-> {}, snapshot |-> {}, result |-> "none"]

\* the update holds its lock from here until its holder is destroyed
HoldsUpdateLock(u) == upd[u].pc \in {"locked", "allocated", "waiting", "sink"}

SyncMutexAlwaysFree(owner) == TRUE

\* sync_lock.try_lock_for succeeds when the timed mutex is free
SyncMutexIsFree(owner) == owner = "free"

ColumnsAlwaysFree(columns, in_progress) == TRUE

\* lockColumns succeeds when no affected column is being updated
ColumnsAreFree(columns, in_progress) == columns \cap in_progress = {}

\* whether getLockForLightweightUpdate can take the lock this mode asks for
CanLockForUpdate(mode, columns) ==
    CASE mode = "sync" -> SyncMutexIsFree(sync_mutex)
      [] mode = "auto" -> ColumnsAreFree(columns, in_progress_columns)
      [] OTHER -> TRUE

\* the affected columns matter in auto mode only
AffectedColumns(mode) == IF mode = "auto" THEN (SUBSET Columns) \ {{}} ELSE {{}}

UpdateGetLock(u, mode) ==
    /\ upd[u].pc = "idle"
    /\ \E columns \in AffectedColumns(mode) :
        /\ CanLockForUpdate(mode, columns)
        /\ upd' = [upd EXCEPT ![u] = [IdleUpdate EXCEPT !.pc = "locked", !.mode = mode,
                                                        !.columns = columns]]
        /\ sync_mutex' = IF mode = "sync" THEN u ELSE sync_mutex
        /\ in_progress_columns' =
                IF mode = "auto" THEN in_progress_columns \cup columns ELSE in_progress_columns
    /\ UNCHANGED <<increment, committing_blocks, alloc_log, data_parts,
                   currently_merging_mutating_parts, tasks, merges_blocker, partition_blockers,
                   operations_lock, current_mutations_by_version, mutation_counters,
                   mutation_files, failed_parts, running_txns, kill, ins, mut, ddl, opt,
                   shutdown_called, shutdown_pc, mutation_wait_mutex, waiter, mutations_loaded,
                   tmp_mutation_files, mutation_file_entries, dest_data_parts, dest_increment,
                   lockers, merges_with_ttl_counter, startup, scheduler, alter,
                   committing_blocks_cv, cleared, granted_roles, max_level>>

\* the lock is not free within lock_acquire_timeout: TIMEOUT_EXCEEDED, nothing taken
UpdateLockTimeout(u, mode) ==
    /\ upd[u].pc = "idle"
    /\ \E columns \in AffectedColumns(mode) :
        /\ ~CanLockForUpdate(mode, columns)
        /\ upd' = [upd EXCEPT ![u] = [IdleUpdate EXCEPT !.result = "TIMEOUT_EXCEEDED"]]
    /\ UNCHANGED <<increment, committing_blocks, alloc_log, data_parts,
                   currently_merging_mutating_parts, tasks, merges_blocker, partition_blockers,
                   operations_lock, current_mutations_by_version, mutation_counters,
                   mutation_files, failed_parts, running_txns, kill, ins, mut, ddl, opt,
                   sync_mutex, in_progress_columns, shutdown_called, shutdown_pc,
                   mutation_wait_mutex, waiter, mutations_loaded, tmp_mutation_files,
                   mutation_file_entries, dest_data_parts, dest_increment, lockers,
                   merges_with_ttl_counter, startup, scheduler, alter, committing_blocks_cv,
                   cleared, granted_roles, max_level>>

\* ~PlainLightweightUpdateLock
ReleasedSyncMutex(u) == IF upd[u].mode = "sync" THEN "free" ELSE sync_mutex

ReleasedColumns(u) ==
    IF upd[u].mode = "auto" THEN in_progress_columns \ upd[u].columns ELSE in_progress_columns

UpdateAllocate(u) ==
    /\ upd[u].pc = "locked"
    /\ upd' = [upd EXCEPT ![u].pc = "allocated", ![u].block = AllocatedBlock("Update").number]
    /\ AllocateBlockNumber("Update")
    /\ UNCHANGED <<alloc_log, data_parts, currently_merging_mutating_parts, tasks, merges_blocker,
                   partition_blockers, operations_lock, current_mutations_by_version,
                   mutation_counters, mutation_files, failed_parts, running_txns, kill, ins, mut,
                   ddl, opt, sync_mutex, in_progress_columns, shutdown_called, shutdown_pc,
                   mutation_wait_mutex, waiter, mutations_loaded, tmp_mutation_files,
                   mutation_file_entries, dest_data_parts, dest_increment, lockers,
                   merges_with_ttl_counter, startup, scheduler, alter, committing_blocks_cv,
                   cleared, granted_roles, max_level>>

UpdateGetAllPartitionIds(u) ==
    /\ upd[u].pc = "allocated"
    /\ upd' = [upd EXCEPT ![u].pc = "waiting",
                          ![u].all_partitions = GetAllPartitionIds(data_parts)]
    /\ UNCHANGED <<increment, committing_blocks, alloc_log, data_parts,
                   currently_merging_mutating_parts, tasks, merges_blocker, partition_blockers,
                   operations_lock, current_mutations_by_version, mutation_counters,
                   mutation_files, failed_parts, running_txns, kill, ins, mut, ddl, opt,
                   sync_mutex, in_progress_columns, shutdown_called, shutdown_pc,
                   mutation_wait_mutex, waiter, mutations_loaded, tmp_mutation_files,
                   mutation_file_entries, dest_data_parts, dest_increment, lockers,
                   merges_with_ttl_counter, startup, scheduler, alter, committing_blocks_cv,
                   cleared, granted_roles, max_level>>

\* the loop that fills partition_id_to_max_block
PartitionIdToMaxBlock(all_partitions) == {pid \in all_partitions : ~IsPatchPartition(pid)}

UpdatePassBarrier(u) ==
    /\ upd[u].pc = "waiting"
    /\ AllCommitted(committing_blocks, upd[u].block)
    /\ upd' = [upd EXCEPT ![u].pc = "sink", ![u].all_partitions = {},
                          ![u].snapshot = PartitionIdToMaxBlock(upd[u].all_partitions)]
    /\ UNCHANGED <<increment, committing_blocks, alloc_log, data_parts,
                   currently_merging_mutating_parts, tasks, merges_blocker, partition_blockers,
                   operations_lock, current_mutations_by_version, mutation_counters,
                   mutation_files, failed_parts, running_txns, kill, ins, mut, ddl, opt,
                   sync_mutex, in_progress_columns, shutdown_called, shutdown_pc,
                   mutation_wait_mutex, waiter, mutations_loaded, tmp_mutation_files,
                   mutation_file_entries, dest_data_parts, dest_increment, lockers,
                   merges_with_ttl_counter, startup, scheduler, alter, committing_blocks_cv,
                   cleared, granted_roles, max_level>>

\* wait_for returned false: TIMEOUT_EXCEEDED is thrown and update_holder is destroyed
UpdateBarrierTimeout(u) ==
    /\ upd[u].pc = "waiting"
    /\ ~AllCommitted(committing_blocks, upd[u].block)
    /\ committing_blocks' = RemoveCommittingBlock(committing_blocks, upd[u].block)
    /\ sync_mutex' = ReleasedSyncMutex(u)
    /\ in_progress_columns' = ReleasedColumns(u)
    /\ upd' = [upd EXCEPT ![u] = [IdleUpdate EXCEPT !.result = "TIMEOUT_EXCEEDED"]]
    /\ UNCHANGED <<increment, alloc_log, data_parts, currently_merging_mutating_parts, tasks,
                   merges_blocker, partition_blockers, operations_lock,
                   current_mutations_by_version, mutation_counters, mutation_files, failed_parts,
                   running_txns, kill, ins, mut, ddl, opt, shutdown_called, shutdown_pc,
                   mutation_wait_mutex, waiter, mutations_loaded, tmp_mutation_files,
                   mutation_file_entries, dest_data_parts, dest_increment, lockers,
                   merges_with_ttl_counter, startup, scheduler, alter, committing_blocks_cv,
                   cleared, granted_roles, max_level>>

\* the patch sink finishes: it may have written a patch part for a partition it read
UpdateFinish(u) ==
    /\ upd[u].pc = "sink"
    /\ \/ UNCHANGED data_parts
       \/ \E pid \in upd[u].snapshot :
            data_parts' = data_parts \cup
                {Part(NewPartInfo(PatchPartitionOf(pid), upd[u].block), "Active",
                      PrehistoricTID)}
    /\ committing_blocks' = RemoveCommittingBlock(committing_blocks, upd[u].block)
    /\ sync_mutex' = ReleasedSyncMutex(u)
    /\ in_progress_columns' = ReleasedColumns(u)
    /\ upd' = [upd EXCEPT ![u] = IdleUpdate]
    /\ UNCHANGED <<increment, alloc_log, currently_merging_mutating_parts, tasks, merges_blocker,
                   partition_blockers, operations_lock, current_mutations_by_version,
                   mutation_counters, mutation_files, failed_parts, running_txns, kill, ins, mut,
                   ddl, opt, shutdown_called, shutdown_pc, mutation_wait_mutex, waiter,
                   mutations_loaded, tmp_mutation_files, mutation_file_entries, dest_data_parts,
                   dest_increment, lockers, merges_with_ttl_counter, startup, scheduler, alter,
                   committing_blocks_cv, cleared, granted_roles, max_level>>

(***************************************************************************)
(* waitForCommittingInsertsAndMutations as a wait on committing_blocks_cv.  *)
(***************************************************************************)
\* notify_one: one of the blocked threads, if any, is made runnable
NotifiedOne(cv) ==
    IF \A u \in Updaters : cv[u] # "asleep" THEN {cv}
    ELSE {[cv EXCEPT ![u] = "notified"] : u \in {w \in Updaters : cv[w] = "asleep"}}

\* removeCommittingBlock(block): erase and notify under committing_blocks_mutex
RemoveCommittingBlockAndNotify(number, cv) ==
    /\ committing_blocks' = RemoveCommittingBlock(committing_blocks, number)
    /\ committing_blocks_cv' \in NotifiedOne(cv)

\* the holder of an insert's block is destroyed, after the commit of the part or
\* without one
InsertRelease(i) ==
    /\ ins[i].pc = "allocated"
    /\ \/ data_parts' = data_parts \cup
            {Part(NewPartInfo(ins[i].partition_id, ins[i].block), "Active", PrehistoricTID)}
       \/ UNCHANGED data_parts
    /\ RemoveCommittingBlockAndNotify(ins[i].block, committing_blocks_cv)
    /\ ins' = [ins EXCEPT ![i] = IdleInsert]
    /\ UNCHANGED <<increment, alloc_log, currently_merging_mutating_parts, tasks, merges_blocker,
                   partition_blockers, operations_lock, current_mutations_by_version,
                   mutation_counters, mutation_files, failed_parts, running_txns, kill, mut, upd,
                   ddl, opt, sync_mutex, in_progress_columns, shutdown_called, shutdown_pc,
                   mutation_wait_mutex, waiter, mutations_loaded, tmp_mutation_files,
                   mutation_file_entries, dest_data_parts, dest_increment, lockers,
                   merges_with_ttl_counter, startup, scheduler, alter, cleared, granted_roles,
                   max_level>>

\* the update goes on to its sink
PassedBarrier(u) ==
    [upd EXCEPT ![u].pc = "sink", ![u].all_partitions = {},
                ![u].snapshot = PartitionIdToMaxBlock(upd[u].all_partitions)]

\* wait_for(lock, timeout, all_committed): the predicate is tried first, under the
\* mutex; the thread blocks when it is false
WaitBegins(u) ==
    /\ upd[u].pc = "waiting"
    /\ committing_blocks_cv[u] = "none"
    /\ IF AllCommitted(committing_blocks, upd[u].block)
       THEN upd' = PassedBarrier(u) /\ UNCHANGED committing_blocks_cv
       ELSE /\ committing_blocks_cv' = [committing_blocks_cv EXCEPT ![u] = "asleep"]
            /\ UNCHANGED upd
    /\ UNCHANGED <<increment, committing_blocks, alloc_log, data_parts,
                   currently_merging_mutating_parts, tasks, merges_blocker, partition_blockers,
                   operations_lock, current_mutations_by_version, mutation_counters,
                   mutation_files, failed_parts, running_txns, kill, ins, mut, ddl, opt,
                   sync_mutex, in_progress_columns, shutdown_called, shutdown_pc,
                   mutation_wait_mutex, waiter, mutations_loaded, tmp_mutation_files,
                   mutation_file_entries, dest_data_parts, dest_increment, lockers,
                   merges_with_ttl_counter, startup, scheduler, alter, cleared, granted_roles,
                   max_level>>

\* a notified thread takes the mutex and tries the predicate again
WaitWakes(u) ==
    /\ committing_blocks_cv[u] = "notified"
    /\ IF AllCommitted(committing_blocks, upd[u].block)
       THEN /\ upd' = PassedBarrier(u)
            /\ committing_blocks_cv' = [committing_blocks_cv EXCEPT ![u] = "none"]
       ELSE /\ committing_blocks_cv' = [committing_blocks_cv EXCEPT ![u] = "asleep"]
            /\ UNCHANGED upd
    /\ UNCHANGED <<increment, committing_blocks, alloc_log, data_parts,
                   currently_merging_mutating_parts, tasks, merges_blocker, partition_blockers,
                   operations_lock, current_mutations_by_version, mutation_counters,
                   mutation_files, failed_parts, running_txns, kill, ins, mut, ddl, opt,
                   sync_mutex, in_progress_columns, shutdown_called, shutdown_pc,
                   mutation_wait_mutex, waiter, mutations_loaded, tmp_mutation_files,
                   mutation_file_entries, dest_data_parts, dest_increment, lockers,
                   merges_with_ttl_counter, startup, scheduler, alter, cleared, granted_roles,
                   max_level>>

\* timeout_ms is over: wait_for returns what the predicate says now; false throws
\* TIMEOUT_EXCEEDED and the update's holder gives its block back
WaitTimeout(u) ==
    /\ committing_blocks_cv[u] \in {"asleep", "notified"}
    /\ IF AllCommitted(committing_blocks, upd[u].block)
       THEN /\ upd' = PassedBarrier(u)
            /\ committing_blocks_cv' = [committing_blocks_cv EXCEPT ![u] = "none"]
            /\ UNCHANGED committing_blocks
       ELSE /\ upd' = [upd EXCEPT ![u] = [IdleUpdate EXCEPT !.result = "TIMEOUT_EXCEEDED"]]
            /\ RemoveCommittingBlockAndNotify(upd[u].block,
                    [committing_blocks_cv EXCEPT ![u] = "none"])
    /\ UNCHANGED <<increment, alloc_log, data_parts, currently_merging_mutating_parts, tasks,
                   merges_blocker, partition_blockers, operations_lock,
                   current_mutations_by_version, mutation_counters, mutation_files, failed_parts,
                   running_txns, kill, ins, mut, ddl, opt, sync_mutex, in_progress_columns,
                   shutdown_called, shutdown_pc, mutation_wait_mutex, waiter, mutations_loaded,
                   tmp_mutation_files, mutation_file_entries, dest_data_parts, dest_increment,
                   lockers, merges_with_ttl_counter, startup, scheduler, alter, cleared,
                   granted_roles, max_level>>

\* the patch sink finishes and the update's holder gives its block back
UpdateRelease(u) ==
    /\ upd[u].pc = "sink"
    /\ RemoveCommittingBlockAndNotify(upd[u].block, committing_blocks_cv)
    /\ upd' = [upd EXCEPT ![u] = IdleUpdate]
    /\ UNCHANGED <<increment, alloc_log, data_parts, currently_merging_mutating_parts, tasks,
                   merges_blocker, partition_blockers, operations_lock,
                   current_mutations_by_version, mutation_counters, mutation_files, failed_parts,
                   running_txns, kill, ins, mut, ddl, opt, sync_mutex, in_progress_columns,
                   shutdown_called, shutdown_pc, mutation_wait_mutex, waiter, mutations_loaded,
                   tmp_mutation_files, mutation_file_entries, dest_data_parts, dest_increment,
                   lockers, merges_with_ttl_counter, startup, scheduler, alter, cleared,
                   granted_roles, max_level>>

(***************************************************************************)
(* Background merges and mutations: CurrentlyMergingPartsTagger,           *)
(* selectPartsToMerge, selectPartsToMutate, scheduleDataProcessingJob.     *)
(***************************************************************************)
IdleTask ==
    [pc |-> "free", kind |-> "none", parts |-> {}, future |-> NoPart,
     tid |-> PrehistoricTID, is_cancelled |-> FALSE,
     merge_type |-> "Regular", commands |-> <<>>]

NeverTagged(info) == FALSE

\* currently_merging_mutating_parts.contains(part)
IsTagged(info) == info \in currently_merging_mutating_parts

\* the check of the CurrentlyMergingPartsTagger constructor: no part is tagged yet
CanTag(infos) == \A info \in infos : ~IsTagged(info)

\* the constructor's insert into currently_merging_mutating_parts
Tagged(infos) == currently_merging_mutating_parts \cup infos

\* ~CurrentlyMergingPartsTagger: the parts of the entry are erased
Untagged(infos) == currently_merging_mutating_parts \ infos

\* merges_blocker.isCancelled()
IsCancelled == merges_blocker > 0

\* merges_blocker.isCancelledForPartition(partition_id)
IsCancelledForPartition(partition_id) ==
    \/ merges_blocker > 0
    \/ (partition_id \in DOMAIN partition_blockers /\ partition_blockers[partition_id] > 0)

MinOf(numbers) == CHOOSE n \in numbers : \A m \in numbers : n <= m
MaxOf(numbers) == CHOOSE n \in numbers : \A m \in numbers : n >= m

\* what a merge of the parts produces: the block range of the sources, one level
\* above the highest, the highest mutation version
FutureMergedPart(infos) ==
    PartInfo((CHOOSE a \in infos : TRUE).partition_id,
             MinOf({a.min_block : a \in infos}),
             MaxOf({a.max_block : a \in infos}),
             MaxOf({a.level : a \in infos}) + 1,
             MaxOf({a.mutation : a \in infos}))

\* current_mutations_by_version.upper_bound(data version) up to end()
MutationsAbove(version) == {v \in DOMAIN current_mutations_by_version : v > version}

\* what the merge selector may choose in a partition: at least two Active parts, none
\* of them tagged, adjacent in block-number space, with no block still committing
\* inside their range and the same mutations still to apply
IsMergeChoice(infos, partition_id) ==
    /\ Cardinality(infos) >= 2
    /\ ~IsPatchPartition(partition_id)
    /\ \A a \in infos : a.partition_id = partition_id /\ ~IsTagged(a)
    /\ \A a, b \in infos : MutationsAbove(DataVersion(a)) = MutationsAbove(DataVersion(b))
    /\ LET lo == MinOf({a.min_block : a \in infos})
           hi == MaxOf({a.max_block : a \in infos})
       IN /\ \A q \in ActiveInfos(data_parts) \ infos :
                q.partition_id = partition_id => (q.max_block < lo \/ q.min_block > hi)
          /\ \A b \in committing_blocks : b.number < lo \/ b.number > hi

MergeChoices(partition_id) ==
    {infos \in SUBSET ActiveInfos(data_parts) : IsMergeChoice(infos, partition_id)}

\* selectAllPartsToMergeWithinPartition with final: every Active part of the partition
FinalMergeChoices(partition_id) ==
    {infos \in MergeChoices(partition_id) :
        \A q \in ActiveInfos(data_parts) : q.partition_id = partition_id => q \in infos}

\* isTTLMergeType
IsTTLMergeType(merge_type) == merge_type \in {"TTLDelete", "TTLRecompress", "TTLDrop"}

\* MergeList::bookMergeWithTTL, cancelMergeWithTTL and onEntryDestroy
BookMergeWithTTL(counter) == counter + 1

CancelMergeWithTTL(counter) == counter - 1

OnEntryDestroy(counter) == counter - 1

\* construct_merge_select_entry: the tagger is made and the entry returned
MergeSelectEntry(infos) ==
    [pc |-> "selected", kind |-> "merge", parts |-> infos, future |-> FutureMergedPart(infos),
     tid |-> PrehistoricTID, is_cancelled |-> FALSE,
     merge_type |-> "Regular", commands |-> <<>>]

\* scheduleDataProcessingJob, the critical section: a merge is selected
ScheduleSelectMerge(t) ==
    /\ tasks[t].pc = "free"
    /\ ~IsCancelled
    /\ \E pid \in PartitionIds : \E infos \in MergeChoices(pid) :
        /\ CanTag(infos)
        /\ currently_merging_mutating_parts' = Tagged(infos)
        /\ tasks' = [tasks EXCEPT ![t] = MergeSelectEntry(infos)]
    /\ UNCHANGED <<increment, committing_blocks, alloc_log, data_parts, merges_blocker,
                   partition_blockers, operations_lock, current_mutations_by_version,
                   mutation_counters, mutation_files, failed_parts, running_txns, kill, ins, mut,
                   upd, ddl, opt, sync_mutex, in_progress_columns, shutdown_called, shutdown_pc,
                   mutation_wait_mutex, waiter, mutations_loaded, tmp_mutation_files,
                   mutation_file_entries, dest_data_parts, dest_increment, lockers,
                   merges_with_ttl_counter, startup, scheduler, alter, committing_blocks_cv,
                   cleared, granted_roles, max_level>>

\* merge_with_ttl_allowed of select_without_hint
MergeWithTTLAllowed == merges_with_ttl_counter < max_number_of_merges_with_ttl_in_pool

\* scheduleDataProcessingJob, the critical section: the selector chooses a TTL merge,
\* construct_merge_select_entry books it and makes the tagger
ScheduleSelectTTLMerge(t) ==
    /\ tasks[t].pc = "free"
    /\ ~IsCancelled
    /\ MergeWithTTLAllowed
    /\ \E pid \in PartitionIds : \E infos \in MergeChoices(pid) :
        /\ CanTag(infos)
        /\ currently_merging_mutating_parts' = Tagged(infos)
        /\ tasks' = [tasks EXCEPT ![t] = [MergeSelectEntry(infos) EXCEPT !.merge_type = "TTLDelete"]]
    /\ merges_with_ttl_counter' = BookMergeWithTTL(merges_with_ttl_counter)
    /\ UNCHANGED <<increment, committing_blocks, alloc_log, data_parts, merges_blocker,
                   partition_blockers, operations_lock, current_mutations_by_version,
                   mutation_counters, mutation_files, failed_parts, running_txns, kill, ins, mut,
                   upd, ddl, opt, sync_mutex, in_progress_columns, shutdown_called, shutdown_pc,
                   mutation_wait_mutex, waiter, mutations_loaded, tmp_mutation_files,
                   mutation_file_entries, dest_data_parts, dest_increment, lockers, startup,
                   scheduler, alter, committing_blocks_cv, cleared, granted_roles, max_level>>

\* the same selection, but the constructor of CurrentlyMergingPartsTagger throws
\* NOT_ENOUGH_SPACE after the booking: no entry is made and nothing is tagged
ScheduleSelectTTLMergeNoSpace ==
    /\ ~IsCancelled
    /\ MergeWithTTLAllowed
    /\ \E pid \in PartitionIds : \E infos \in MergeChoices(pid) : CanTag(infos)
    /\ merges_with_ttl_counter' = BookMergeWithTTL(merges_with_ttl_counter)
    /\ UNCHANGED <<increment, committing_blocks, alloc_log, data_parts,
                   currently_merging_mutating_parts, tasks, merges_blocker, partition_blockers,
                   operations_lock, current_mutations_by_version, mutation_counters,
                   mutation_files, failed_parts, running_txns, kill, ins, mut, upd, ddl, opt,
                   sync_mutex, in_progress_columns, shutdown_called, shutdown_pc,
                   mutation_wait_mutex, waiter, mutations_loaded, tmp_mutation_files,
                   mutation_file_entries, dest_data_parts, dest_increment, lockers, startup,
                   scheduler, alter, committing_blocks_cv, cleared, granted_roles, max_level>>

\* getActionLock(PartsMerge), as SYSTEM STOP MERGES takes it
SystemStopMerges ==
    /\ merges_blocker = 0
    /\ merges_blocker' = merges_blocker + 1
    /\ UNCHANGED <<increment, committing_blocks, alloc_log, data_parts,
                   currently_merging_mutating_parts, tasks, partition_blockers, operations_lock,
                   current_mutations_by_version, mutation_counters, mutation_files, failed_parts,
                   running_txns, kill, ins, mut, upd, ddl, opt, sync_mutex, in_progress_columns,
                   shutdown_called, shutdown_pc, mutation_wait_mutex, waiter, mutations_loaded,
                   tmp_mutation_files, mutation_file_entries, dest_data_parts, dest_increment,
                   lockers, merges_with_ttl_counter, startup, scheduler, alter,
                   committing_blocks_cv, cleared, granted_roles, max_level>>

\* the ActionLock is destroyed: SYSTEM START MERGES
SystemStartMerges ==
    /\ merges_blocker > 0
    /\ merges_blocker' = merges_blocker - 1
    /\ UNCHANGED <<increment, committing_blocks, alloc_log, data_parts,
                   currently_merging_mutating_parts, tasks, partition_blockers, operations_lock,
                   current_mutations_by_version, mutation_counters, mutation_files, failed_parts,
                   running_txns, kill, ins, mut, upd, ddl, opt, sync_mutex, in_progress_columns,
                   shutdown_called, shutdown_pc, mutation_wait_mutex, waiter, mutations_loaded,
                   tmp_mutation_files, mutation_file_entries, dest_data_parts, dest_increment,
                   lockers, merges_with_ttl_counter, startup, scheduler, alter,
                   committing_blocks_cv, cleared, granted_roles, max_level>>

\* VersionMetadata::isVisible for a part and the tid of a mutation
IsVisible(part, tid) == part.creation_tid \in {PrehistoricTID, tid}

\* tryGetTransactionForMutation
TryGetTransactionForMutation(entry) ==
    IF entry.tid = PrehistoricTID THEN NoTransaction
    ELSE IF entry.tid \in running_txns THEN entry.tid
    ELSE NoTransaction

\* the squash loop of selectPartsToMutate: the versions it may stop at as
\* last_mutation_to_apply; it goes up from the first entry above the part's data
\* version, stops at an entry of another tid and may stop earlier (the AST limit, a
\* barrier, a failed size validation)
LastMutationsToApply(info) ==
    LET above == MutationsAbove(DataVersion(info))
        first == MinOf(above)
    IN IF above = {} THEN {}
       ELSE {last \in above :
                \A v \in above : v <= last =>
                    current_mutations_by_version[v].tid =
                        current_mutations_by_version[first].tid}

\* the parts selectPartsToMutate may take: Active, not tagged, visible to the
\* transaction of the first entry, which is still running
CanBeMutated(part) ==
    /\ part.state = "Active"
    /\ ~IsTagged(part.info)
    /\ MutationsAbove(DataVersion(part.info)) # {}
    /\ LET entry == current_mutations_by_version[MinOf(MutationsAbove(DataVersion(part.info)))]
       IN entry.tid # PrehistoricTID =>
            /\ IsVisible(part, entry.tid)
            /\ TryGetTransactionForMutation(entry) # NoTransaction

\* the info of the source part
SourcePartInfo(info, last_mutation_to_apply) == info

\* new_part_info of selectPartsToMutate
MutatedPartInfo(info, last_mutation_to_apply) == [info EXCEPT !.mutation = last_mutation_to_apply]

MutateSelectEntry(info, last) ==
    [pc |-> "selected", kind |-> "mutate", parts |-> {info},
     future |-> MutatedPartInfo(info, last),
     tid |-> current_mutations_by_version[MinOf(MutationsAbove(DataVersion(info)))].tid,
     is_cancelled |-> FALSE,
     merge_type |-> "Regular", commands |-> <<>>]

\* scheduleDataProcessingJob, the critical section: no merge, a mutation is selected
ScheduleSelectMutate(t) ==
    /\ tasks[t].pc = "free"
    /\ ~IsCancelled
    /\ \E part \in data_parts :
        /\ CanBeMutated(part)
        /\ \E last \in LastMutationsToApply(part.info) :
            /\ CanTag({part.info})
            /\ currently_merging_mutating_parts' = Tagged({part.info})
            /\ tasks' = [tasks EXCEPT ![t] = MutateSelectEntry(part.info, last)]
    /\ UNCHANGED <<increment, committing_blocks, alloc_log, data_parts, merges_blocker,
                   partition_blockers, operations_lock, current_mutations_by_version,
                   mutation_counters, mutation_files, failed_parts, running_txns, kill, ins, mut,
                   upd, ddl, opt, sync_mutex, in_progress_columns, shutdown_called, shutdown_pc,
                   mutation_wait_mutex, waiter, mutations_loaded, tmp_mutation_files,
                   mutation_file_entries, dest_data_parts, dest_increment, lockers,
                   merges_with_ttl_counter, startup, scheduler, alter, committing_blocks_cv,
                   cleared, granted_roles, max_level>>

\* scheduleDataProcessingJob after the critical section: is_cancelled(entry) is false
\* and the task is scheduled
ScheduleTask(t) ==
    /\ tasks[t].pc = "selected"
    /\ ~IsCancelledForPartition(tasks[t].future.partition_id)
    /\ tasks' = [tasks EXCEPT ![t].pc = "running"]
    /\ UNCHANGED <<increment, committing_blocks, alloc_log, data_parts,
                   currently_merging_mutating_parts, merges_blocker, partition_blockers,
                   operations_lock, current_mutations_by_version, mutation_counters,
                   mutation_files, failed_parts, running_txns, kill, ins, mut, upd, ddl, opt,
                   sync_mutex, in_progress_columns, shutdown_called, shutdown_pc,
                   mutation_wait_mutex, waiter, mutations_loaded, tmp_mutation_files,
                   mutation_file_entries, dest_data_parts, dest_increment, lockers,
                   merges_with_ttl_counter, startup, scheduler, alter, committing_blocks_cv,
                   cleared, granted_roles, max_level>>

\* is_cancelled(entry) is true and the function returns, or the pool refuses the
\* task and the booking of a TTL merge is cancelled: the entry is destroyed
ScheduleDropEntry(t) ==
    /\ tasks[t].pc = "selected"
    /\ currently_merging_mutating_parts' = Untagged(tasks[t].parts)
    /\ merges_with_ttl_counter' =
            IF IsCancelledForPartition(tasks[t].future.partition_id)
            THEN merges_with_ttl_counter
            ELSE IF IsTTLMergeType(tasks[t].merge_type)
                 THEN CancelMergeWithTTL(merges_with_ttl_counter)
                 ELSE merges_with_ttl_counter
    /\ tasks' = [tasks EXCEPT ![t] = IdleTask]
    /\ UNCHANGED <<increment, committing_blocks, alloc_log, data_parts, merges_blocker,
                   partition_blockers, operations_lock, current_mutations_by_version,
                   mutation_counters, mutation_files, failed_parts, running_txns, kill, ins, mut,
                   upd, ddl, opt, sync_mutex, in_progress_columns, shutdown_called, shutdown_pc,
                   mutation_wait_mutex, waiter, mutations_loaded, tmp_mutation_files,
                   mutation_file_entries, dest_data_parts, dest_increment, lockers, startup,
                   scheduler, alter, committing_blocks_cv, cleared, granted_roles, max_level>>

(***************************************************************************)
(* mutation_wait_mutex and mutation_wait_event.                            *)
(***************************************************************************)
\* slept: whether the call has slept in wait()
IdleWaiter == [pc |-> "idle", version |-> NoBlock, slept |-> FALSE]

\* a notifier that does not take the mutex
MutationWaitMutexAlwaysFree == TRUE

\* std::lock_guard lock(mutation_wait_mutex) can be taken
MutationWaitMutexIsFree == mutation_wait_mutex = "free"

\* nobody is woken
NotifyNobody == waiter

\* mutation_wait_event.notify_all(): the thread that sleeps in wait() is made runnable
NotifyAll ==
    IF waiter.pc = "sleeping" THEN [waiter EXCEPT !.pc = "notified"] ELSE waiter

(***************************************************************************)
(* The merge and mutation tasks, and updateMutationEntriesErrors.          *)
(***************************************************************************)
\* the entries updateMutationEntriesErrors walks: upper_bound(source data version) up
\* to upper_bound(result data version)
EntriesInRange(source, result) ==
    {v \in DOMAIN current_mutations_by_version :
        v > DataVersion(source) /\ v <= DataVersion(result)}

ClearedFailure(entry) ==
    [entry EXCEPT !.latest_failed_part = NoPart, !.latest_fail_reason = ""]

RecordedFailure(entry, failed_part) ==
    [entry EXCEPT !.latest_failed_part = failed_part, !.latest_fail_reason = "error"]

\* whether the success branch clears the entry
ClearsFailure(entry, result) ==
    entry.latest_failed_part # NoPart /\ Contains(result, entry.latest_failed_part)

\* every entry of the map is touched
UpdateEveryMutationEntry(source, result, is_successful) ==
    [v \in DOMAIN current_mutations_by_version |->
        LET entry == current_mutations_by_version[v]
        IN IF is_successful
           THEN (IF ClearsFailure(entry, result) THEN ClearedFailure(entry) ELSE entry)
           ELSE RecordedFailure(entry, source)]

\* updateMutationEntriesErrors: the mutation map it leaves
UpdateMutationEntriesErrors(source, result, is_successful) ==
    [v \in DOMAIN current_mutations_by_version |->
        LET entry == current_mutations_by_version[v]
        IN IF DataVersion(source) = DataVersion(result) \/ v \notin EntriesInRange(source, result)
           THEN entry
           ELSE IF is_successful
                THEN (IF ClearsFailure(entry, result) THEN ClearedFailure(entry) ELSE entry)
                ELSE RecordedFailure(entry, source)]

\* updateMutationEntriesErrors: the backoff table it leaves
UpdateBackoffPolicy(source, result, is_successful) ==
    LET hit == {v \in EntriesInRange(source, result) : v = result.mutation}
    IN IF DataVersion(source) = DataVersion(result) \/ hit = {} THEN failed_parts
       ELSE IF is_successful
            THEN (IF \E v \in hit : ClearsFailure(current_mutations_by_version[v], result)
                  THEN failed_parts \ {source} ELSE failed_parts)
            ELSE failed_parts \cup {source}

SourceOf(task) == CHOOSE info \in task.parts : TRUE

\* whether the result of a merge of these parts has rows
IsEmptyResult(task) ==
    \A p \in data_parts : p.info \in task.parts => p.empty

ResultPart(task) ==
    IF IsEmptyResult(task) THEN EmptyPart(task.future, "Active", task.tid)
    ELSE Part(task.future, "Active", task.tid)

\* the task finishes its work and commits: the result replaces the sources in the
\* registry; a mutation task then reports its success and notifies the waiters
TaskCommit(t) ==
    /\ tasks[t].pc = "running"
    /\ ~tasks[t].is_cancelled
    /\ CanBeAdded(data_parts, ResultPart(tasks[t]))
    /\ data_parts' = RenameTempPartAndReplace(data_parts, ResultPart(tasks[t]))
    /\ IF tasks[t].kind = "mutate"
       THEN /\ current_mutations_by_version' =
                    UpdateMutationEntriesErrors(SourceOf(tasks[t]), tasks[t].future, TRUE)
            /\ failed_parts' = UpdateBackoffPolicy(SourceOf(tasks[t]), tasks[t].future, TRUE)
            /\ MutationWaitMutexIsFree
            /\ waiter' = NotifyAll
       ELSE UNCHANGED <<current_mutations_by_version, failed_parts, waiter>>
    /\ tasks' = [tasks EXCEPT ![t].pc = "committed"]
    /\ UNCHANGED <<increment, committing_blocks, alloc_log, currently_merging_mutating_parts,
                   merges_blocker, partition_blockers, operations_lock, mutation_counters,
                   mutation_files, running_txns, kill, ins, mut, upd, ddl, opt, sync_mutex,
                   in_progress_columns, shutdown_called, shutdown_pc, mutation_wait_mutex,
                   mutations_loaded, tmp_mutation_files, mutation_file_entries, dest_data_parts,
                   dest_increment, lockers, merges_with_ttl_counter, startup, scheduler, alter,
                   committing_blocks_cv, cleared, granted_roles, max_level>>

\* the task fails or is cancelled: nothing is committed; a mutation task reports
\* its failure and notifies the waiters
TaskFail(t) ==
    /\ tasks[t].pc = "running"
    /\ IF tasks[t].kind = "mutate"
       THEN /\ current_mutations_by_version' =
                    UpdateMutationEntriesErrors(SourceOf(tasks[t]), tasks[t].future, FALSE)
            /\ failed_parts' = UpdateBackoffPolicy(SourceOf(tasks[t]), tasks[t].future, FALSE)
            /\ MutationWaitMutexIsFree
            /\ waiter' = NotifyAll
       ELSE UNCHANGED <<current_mutations_by_version, failed_parts, waiter>>
    /\ tasks' = [tasks EXCEPT ![t].pc = "failed"]
    /\ UNCHANGED <<increment, committing_blocks, alloc_log, data_parts,
                   currently_merging_mutating_parts, merges_blocker, partition_blockers,
                   operations_lock, mutation_counters, mutation_files, running_txns, kill, ins,
                   mut, upd, ddl, opt, sync_mutex, in_progress_columns, shutdown_called,
                   shutdown_pc, mutation_wait_mutex, mutations_loaded, tmp_mutation_files,
                   mutation_file_entries, dest_data_parts, dest_increment, lockers,
                   merges_with_ttl_counter, startup, scheduler, alter, committing_blocks_cv,
                   cleared, granted_roles, max_level>>

\* the task and its entry are destroyed: ~CurrentlyMergingPartsTagger, and the merge
\* list entry of a TTL merge gives its slot back
TaskRelease(t) ==
    /\ tasks[t].pc \in {"committed", "failed"}
    /\ currently_merging_mutating_parts' = Untagged(tasks[t].parts)
    /\ merges_with_ttl_counter' =
            IF IsTTLMergeType(tasks[t].merge_type)
            THEN OnEntryDestroy(merges_with_ttl_counter)
            ELSE merges_with_ttl_counter
    /\ tasks' = [tasks EXCEPT ![t] = IdleTask]
    /\ UNCHANGED <<increment, committing_blocks, alloc_log, data_parts, merges_blocker,
                   partition_blockers, operations_lock, current_mutations_by_version,
                   mutation_counters, mutation_files, failed_parts, running_txns, kill, ins, mut,
                   upd, ddl, opt, sync_mutex, in_progress_columns, shutdown_called, shutdown_pc,
                   mutation_wait_mutex, waiter, mutations_loaded, tmp_mutation_files,
                   mutation_file_entries, dest_data_parts, dest_increment, lockers, startup,
                   scheduler, alter, committing_blocks_cv, cleared, granted_roles, max_level>>

(***************************************************************************)
(* selectPartsToMutate: the squash loop with the commands of the entries.  *)
(***************************************************************************)
max_ast_elements == 4
MaxMutationVersion == 5

\* the command types the loop does not pass to the MutationsInterpreter
NotInterpretedTypes ==
    {"DROP_COLUMN", "DROP_INDEX", "DROP_PROJECTION", "DROP_STATISTICS", "RENAME_COLUMN"}

\* MutationCommands::containBarrierCommand
ContainBarrierCommand(commands) ==
    \E i \in 1..Len(commands) : commands[i] \in NotInterpretedTypes

\* commands_for_size_validation is not empty
NeedsSizeValidation(commands) ==
    \E i \in 1..Len(commands) : commands[i] \notin NotInterpretedTypes

\* commands_size: one AST element for every command
CommandsSize(commands) == Len(commands)

\* nothing is squashed yet: last_mutation_to_apply = mutations_end_it
NothingSquashed == [commands |-> <<>>, last |-> NoBlock, ast |-> 0, failed_at |-> NoBlock]

\* the barrier entry is squashed like any other entry
BarrierSquashed(acc, v) ==
    [acc EXCEPT !.commands = @ \o current_mutations_by_version[v].commands, !.last = v]

\* the loop at an entry with a barrier command: the entry is taken when nothing is
\* squashed yet, and the loop ends
BarrierStep(acc, v) ==
    IF acc.commands = <<>>
    THEN [acc EXCEPT !.commands = current_mutations_by_version[v].commands, !.last = v]
    ELSE acc

\* the squash loop from mutations_begin_it: rest are the versions not yet visited,
\* first_tid the tid of the first entry, failing the versions whose size validation
\* throws
RECURSIVE SquashLoop(_, _, _, _)
SquashLoop(rest, acc, first_tid, failing) ==
    IF rest = {} THEN acc
    ELSE LET v == MinOf(rest)
             entry == current_mutations_by_version[v]
             commands_size == CommandsSize(entry.commands)
         IN IF entry.tid # first_tid THEN acc
            ELSE IF NeedsSizeValidation(entry.commands) /\ v \in failing
                 THEN [acc EXCEPT !.failed_at = v]
            ELSE IF acc.ast + commands_size >= max_ast_elements THEN acc
            ELSE IF ContainBarrierCommand(entry.commands) THEN BarrierStep(acc, v)
            ELSE SquashLoop(rest \ {v},
                            [acc EXCEPT !.commands = @ \o entry.commands, !.last = v,
                                        !.ast = @ + commands_size],
                            first_tid, failing)

\* the loop for one part
SquashFor(info, failing) ==
    LET above == MutationsAbove(DataVersion(info))
    IN SquashLoop(above, NothingSquashed, current_mutations_by_version[MinOf(above)].tid, failing)

\* the order of getDataPartsVectorForInternalUsage within a partition
PartInfoLess(a, b) ==
    \/ a.min_block < b.min_block
    \/ a.min_block = b.min_block /\ a.max_block < b.max_block
    \/ a.min_block = b.min_block /\ a.max_block = b.max_block /\ a.level < b.level
    \/ /\ a.min_block = b.min_block /\ a.max_block = b.max_block /\ a.level = b.level
       /\ a.mutation < b.mutation

\* the loop over the parts passes the part by: it is tagged, no entry is above its data
\* version, or it is not visible to the transaction of the first entry
PartIsPassedBy(part) ==
    \/ IsTagged(part.info)
    \/ MutationsAbove(DataVersion(part.info)) = {}
    \/ LET entry == current_mutations_by_version[MinOf(MutationsAbove(DataVersion(part.info)))]
       IN entry.tid # PrehistoricTID /\ ~IsVisible(part, entry.tid)

\* the transaction of the first entry is not running: LOGICAL_ERROR
SelectionThrows(part) ==
    LET entry == current_mutations_by_version[MinOf(MutationsAbove(DataVersion(part.info)))]
    IN entry.tid # PrehistoricTID /\ TryGetTransactionForMutation(entry) = NoTransaction

\* the loop over the parts: what it returns and the entries whose size validation
\* it found throwing on the way
RECURSIVE SelectLoop(_, _, _)
SelectLoop(parts, failing, failed) ==
    IF parts = {} THEN [part |-> NoPart, squash |-> NothingSquashed, failed |-> failed]
    ELSE LET part == CHOOSE p \in parts : \A q \in parts \ {p} : PartInfoLess(p.info, q.info)
         IN IF PartIsPassedBy(part) THEN SelectLoop(parts \ {part}, failing, failed)
            ELSE IF SelectionThrows(part)
                 THEN [part |-> NoPart, squash |-> NothingSquashed, failed |-> failed]
            ELSE LET squash == SquashFor(part.info, failing)
                     seen == IF squash.failed_at = NoBlock THEN failed
                             ELSE failed \cup {squash.failed_at}
                 IN IF squash.commands # <<>>
                    THEN [part |-> part.info, squash |-> squash, failed |-> seen]
                    ELSE SelectLoop(parts \ {part}, failing, seen)

\* the entries after the call: latest_fail_reason of those whose validation threw
ValidationFailuresRecorded(failed) ==
    [v \in DOMAIN current_mutations_by_version |->
        IF v \in failed
        THEN [current_mutations_by_version[v] EXCEPT !.latest_fail_reason = "error"]
        ELSE current_mutations_by_version[v]]

\* selectPartsToMutate as scheduleDataProcessingJob calls it: the first part with
\* commands to apply is tagged and its entry returned
SelectPartsToMutate(t, failing) ==
    /\ tasks[t].pc = "free"
    /\ ~IsCancelled
    /\ current_mutations_by_version # <<>>
    /\ LET selected == SelectLoop(ActiveParts(data_parts), failing, {})
       IN /\ current_mutations_by_version' = ValidationFailuresRecorded(selected.failed)
          /\ IF selected.part = NoPart
             THEN UNCHANGED <<tasks, currently_merging_mutating_parts>>
             ELSE /\ currently_merging_mutating_parts' = Tagged({selected.part})
                  /\ tasks' = [tasks EXCEPT ![t] =
                                [MutateSelectEntry(selected.part, selected.squash.last)
                                    EXCEPT !.commands = selected.squash.commands]]
    /\ UNCHANGED <<increment, committing_blocks, alloc_log, data_parts, merges_blocker,
                   partition_blockers, operations_lock, mutation_counters, mutation_files,
                   failed_parts, running_txns, kill, ins, mut, upd, ddl, opt, sync_mutex,
                   in_progress_columns, shutdown_called, shutdown_pc, mutation_wait_mutex, waiter,
                   mutations_loaded, tmp_mutation_files, mutation_file_entries, dest_data_parts,
                   dest_increment, lockers, merges_with_ttl_counter, startup, scheduler, alter,
                   committing_blocks_cv, cleared, granted_roles, max_level>>

\* the constructor of the tagger tags the part and then throws
TaggerThrowsTagged(infos) == Tagged(infos)

\* the constructor of CurrentlyMergingPartsTagger throws NOT_ENOUGH_SPACE: the insert
\* into currently_merging_mutating_parts is not reached
TaggerThrows(infos) == currently_merging_mutating_parts

\* selectPartsToMutate finds a part and its commands, and the reservation for the new
\* part fails: NOT_ENOUGH_SPACE leaves scheduleDataProcessingJob
SelectPartsToMutateNoSpace(failing) ==
    /\ ~IsCancelled
    /\ current_mutations_by_version # <<>>
    /\ LET selected == SelectLoop(ActiveParts(data_parts), failing, {})
       IN /\ selected.part # NoPart
          /\ current_mutations_by_version' = ValidationFailuresRecorded(selected.failed)
          /\ currently_merging_mutating_parts' = TaggerThrows({selected.part})
    /\ scheduler' = [scheduler EXCEPT !.pc = "threw"]
    /\ UNCHANGED <<increment, committing_blocks, alloc_log, data_parts, tasks, merges_blocker,
                   partition_blockers, operations_lock, mutation_counters, mutation_files,
                   failed_parts, running_txns, kill, ins, mut, upd, ddl, opt, sync_mutex,
                   in_progress_columns, shutdown_called, shutdown_pc, mutation_wait_mutex, waiter,
                   mutations_loaded, tmp_mutation_files, mutation_file_entries, dest_data_parts,
                   dest_increment, lockers, merges_with_ttl_counter, startup, alter,
                   committing_blocks_cv, cleared, granted_roles, max_level>>

\* selectPartsToMerge finds parts to merge, and the reservation for the merged part
\* fails: NOT_ENOUGH_SPACE leaves scheduleDataProcessingJob
SelectPartsToMergeNoSpace ==
    /\ ~IsCancelled
    /\ \E pid \in PartitionIds : \E infos \in MergeChoices(pid) :
        /\ CanTag(infos)
        /\ currently_merging_mutating_parts' = TaggerThrows(infos)
    /\ scheduler' = [scheduler EXCEPT !.pc = "threw"]
    /\ UNCHANGED <<increment, committing_blocks, alloc_log, data_parts, tasks, merges_blocker,
                   partition_blockers, operations_lock, current_mutations_by_version,
                   mutation_counters, mutation_files, failed_parts, running_txns, kill, ins, mut,
                   upd, ddl, opt, sync_mutex, in_progress_columns, shutdown_called, shutdown_pc,
                   mutation_wait_mutex, waiter, mutations_loaded, tmp_mutation_files,
                   mutation_file_entries, dest_data_parts, dest_increment, lockers,
                   merges_with_ttl_counter, startup, alter, committing_blocks_cv, cleared,
                   granted_roles, max_level>>
(***************************************************************************)
(* scheduleDataProcessingJob as one call: selection, submission, cleanup.  *)
(***************************************************************************)
\* time_after_previous_cleanup_temporary_directories, time_after_previous_cleanup_parts
CleanupTimers == {"temporary_directories", "parts"}

\* no call has been made; no timer has elapsed
IdleScheduler ==
    [pc |-> "idle", task |-> "none", has_mutations |-> FALSE, result |-> FALSE,
     submitted |-> {}, common_tasks |-> {}, elapsed |-> {}]

\* a call can begin: the assignee calls the function again after it returned
CallBegins == scheduler.pc \in {"idle", "returned"}

\* the locals of a new call
NewCall == [IdleScheduler EXCEPT !.elapsed = scheduler.elapsed]

\* the interval of a cleanup timer elapses
TimerElapses(timer) ==
    /\ timer \notin scheduler.elapsed
    /\ scheduler' = [scheduler EXCEPT !.elapsed = @ \cup {timer}]
    /\ UNCHANGED <<increment, committing_blocks, alloc_log, data_parts,
                   currently_merging_mutating_parts, tasks, merges_blocker, partition_blockers,
                   operations_lock, current_mutations_by_version, mutation_counters,
                   mutation_files, failed_parts, running_txns, kill, ins, mut, upd, ddl, opt,
                   sync_mutex, in_progress_columns, shutdown_called, shutdown_pc,
                   mutation_wait_mutex, waiter, mutations_loaded, tmp_mutation_files,
                   mutation_file_entries, dest_data_parts, dest_increment, lockers,
                   merges_with_ttl_counter, startup, alter, committing_blocks_cv, cleared,
                   granted_roles, max_level>>

\* if (shutdown_called) return false
ScheduleJobShutdown ==
    /\ CallBegins
    /\ shutdown_called
    /\ scheduler' = [NewCall EXCEPT !.pc = "returned"]
    /\ UNCHANGED <<increment, committing_blocks, alloc_log, data_parts,
                   currently_merging_mutating_parts, tasks, merges_blocker, partition_blockers,
                   operations_lock, current_mutations_by_version, mutation_counters,
                   mutation_files, failed_parts, running_txns, kill, ins, mut, upd, ddl, opt,
                   sync_mutex, in_progress_columns, shutdown_called, shutdown_pc,
                   mutation_wait_mutex, waiter, mutations_loaded, tmp_mutation_files,
                   mutation_file_entries, dest_data_parts, dest_increment, lockers,
                   merges_with_ttl_counter, startup, alter, committing_blocks_cv, cleared,
                   granted_roles, max_level>>

\* if (merges_blocker.isCancelled()) return false
ScheduleJobBlocked ==
    /\ CallBegins
    /\ ~shutdown_called
    /\ IsCancelled
    /\ scheduler' = [NewCall EXCEPT !.pc = "returned"]
    /\ UNCHANGED <<increment, committing_blocks, alloc_log, data_parts,
                   currently_merging_mutating_parts, tasks, merges_blocker, partition_blockers,
                   operations_lock, current_mutations_by_version, mutation_counters,
                   mutation_files, failed_parts, running_txns, kill, ins, mut, upd, ddl, opt,
                   sync_mutex, in_progress_columns, shutdown_called, shutdown_pc,
                   mutation_wait_mutex, waiter, mutations_loaded, tmp_mutation_files,
                   mutation_file_entries, dest_data_parts, dest_increment, lockers,
                   merges_with_ttl_counter, startup, alter, committing_blocks_cv, cleared,
                   granted_roles, max_level>>

\* the critical section: selectPartsToMerge gives an entry
ScheduleJobSelectMerge(t) ==
    /\ CallBegins
    /\ ~shutdown_called
    /\ ~IsCancelled
    /\ tasks[t].pc = "free"
    /\ \E pid \in PartitionIds : \E infos \in MergeChoices(pid) :
        /\ CanTag(infos)
        /\ currently_merging_mutating_parts' = Tagged(infos)
        /\ tasks' = [tasks EXCEPT ![t] = MergeSelectEntry(infos)]
    /\ scheduler' = [NewCall EXCEPT !.pc = "selected", !.task = t,
                        !.has_mutations = current_mutations_by_version # <<>>]
    /\ UNCHANGED <<increment, committing_blocks, alloc_log, data_parts, merges_blocker,
                   partition_blockers, operations_lock, current_mutations_by_version,
                   mutation_counters, mutation_files, failed_parts, running_txns, kill, ins, mut,
                   upd, ddl, opt, sync_mutex, in_progress_columns, shutdown_called, shutdown_pc,
                   mutation_wait_mutex, waiter, mutations_loaded, tmp_mutation_files,
                   mutation_file_entries, dest_data_parts, dest_increment, lockers,
                   merges_with_ttl_counter, startup, alter, committing_blocks_cv, cleared,
                   granted_roles, max_level>>

\* the critical section: selectPartsToMerge gives no entry, the map is not empty and
\* selectPartsToMutate gives an entry
ScheduleJobSelectMutate(t) ==
    /\ CallBegins
    /\ ~shutdown_called
    /\ ~IsCancelled
    /\ tasks[t].pc = "free"
    /\ current_mutations_by_version # <<>>
    /\ \E part \in data_parts :
        /\ CanBeMutated(part)
        /\ \E last \in LastMutationsToApply(part.info) :
            /\ CanTag({part.info})
            /\ currently_merging_mutating_parts' = Tagged({part.info})
            /\ tasks' = [tasks EXCEPT ![t] = MutateSelectEntry(part.info, last)]
    /\ scheduler' = [NewCall EXCEPT !.pc = "selected", !.task = t, !.has_mutations = TRUE]
    /\ UNCHANGED <<increment, committing_blocks, alloc_log, data_parts, merges_blocker,
                   partition_blockers, operations_lock, current_mutations_by_version,
                   mutation_counters, mutation_files, failed_parts, running_txns, kill, ins, mut,
                   upd, ddl, opt, sync_mutex, in_progress_columns, shutdown_called, shutdown_pc,
                   mutation_wait_mutex, waiter, mutations_loaded, tmp_mutation_files,
                   mutation_file_entries, dest_data_parts, dest_increment, lockers,
                   merges_with_ttl_counter, startup, alter, committing_blocks_cv, cleared,
                   granted_roles, max_level>>

\* the critical section: neither selection gives an entry
ScheduleJobSelectNothing ==
    /\ CallBegins
    /\ ~shutdown_called
    /\ ~IsCancelled
    /\ scheduler' = [NewCall EXCEPT !.pc = "nothing",
                        !.has_mutations = current_mutations_by_version # <<>>]
    /\ UNCHANGED <<increment, committing_blocks, alloc_log, data_parts,
                   currently_merging_mutating_parts, tasks, merges_blocker, partition_blockers,
                   operations_lock, current_mutations_by_version, mutation_counters,
                   mutation_files, failed_parts, running_txns, kill, ins, mut, upd, ddl, opt,
                   sync_mutex, in_progress_columns, shutdown_called, shutdown_pc,
                   mutation_wait_mutex, waiter, mutations_loaded, tmp_mutation_files,
                   mutation_file_entries, dest_data_parts, dest_increment, lockers,
                   merges_with_ttl_counter, startup, alter, committing_blocks_cv, cleared,
                   granted_roles, max_level>>

\* the task is given to the pool although is_cancelled(entry) is true
ScheduleJobEntrySubmitted ==
    /\ scheduler.pc = "selected"
    /\ IsCancelledForPartition(tasks[scheduler.task].future.partition_id)
    /\ tasks' = [tasks EXCEPT ![scheduler.task].pc = "running"]
    /\ scheduler' = [scheduler EXCEPT !.pc = "returned", !.result = TRUE,
                        !.submitted = {tasks[scheduler.task].kind}]
    /\ UNCHANGED <<increment, committing_blocks, alloc_log, data_parts,
                   currently_merging_mutating_parts, merges_blocker, partition_blockers,
                   operations_lock, current_mutations_by_version, mutation_counters,
                   mutation_files, failed_parts, running_txns, kill, ins, mut, upd, ddl, opt,
                   sync_mutex, in_progress_columns, shutdown_called, shutdown_pc,
                   mutation_wait_mutex, waiter, mutations_loaded, tmp_mutation_files,
                   mutation_file_entries, dest_data_parts, dest_increment, lockers,
                   merges_with_ttl_counter, startup, alter, committing_blocks_cv, cleared,
                   granted_roles, max_level>>

\* if (is_cancelled(entry)) return false: the entry is destroyed
ScheduleJobEntryCancelled ==
    /\ scheduler.pc = "selected"
    /\ IsCancelledForPartition(tasks[scheduler.task].future.partition_id)
    /\ currently_merging_mutating_parts' = Untagged(tasks[scheduler.task].parts)
    /\ tasks' = [tasks EXCEPT ![scheduler.task] = IdleTask]
    /\ scheduler' = [scheduler EXCEPT !.pc = "returned", !.result = FALSE]
    /\ UNCHANGED <<increment, committing_blocks, alloc_log, data_parts, merges_blocker,
                   partition_blockers, operations_lock, current_mutations_by_version,
                   mutation_counters, mutation_files, failed_parts, running_txns, kill, ins, mut,
                   upd, ddl, opt, sync_mutex, in_progress_columns, shutdown_called, shutdown_pc,
                   mutation_wait_mutex, waiter, mutations_loaded, tmp_mutation_files,
                   mutation_file_entries, dest_data_parts, dest_increment, lockers,
                   merges_with_ttl_counter, startup, alter, committing_blocks_cv, cleared,
                   granted_roles, max_level>>

\* return assignee.scheduleMergeMutateTask(task): the pool takes the task, or refuses
\* it and the entry is destroyed
ScheduleJobSubmit(scheduled) ==
    /\ scheduler.pc = "selected"
    /\ ~IsCancelledForPartition(tasks[scheduler.task].future.partition_id)
    /\ IF scheduled
       THEN /\ tasks' = [tasks EXCEPT ![scheduler.task].pc = "running"]
            /\ UNCHANGED <<currently_merging_mutating_parts, merges_with_ttl_counter>>
       ELSE /\ tasks' = [tasks EXCEPT ![scheduler.task] = IdleTask]
            /\ currently_merging_mutating_parts' = Untagged(tasks[scheduler.task].parts)
            /\ merges_with_ttl_counter' =
                    IF IsTTLMergeType(tasks[scheduler.task].merge_type)
                    THEN CancelMergeWithTTL(merges_with_ttl_counter)
                    ELSE merges_with_ttl_counter
    /\ scheduler' = [scheduler EXCEPT !.pc = "returned", !.result = scheduled,
                        !.submitted = IF scheduled THEN {tasks[scheduler.task].kind} ELSE {}]
    /\ UNCHANGED <<increment, committing_blocks, alloc_log, data_parts, merges_blocker,
                   partition_blockers, operations_lock, current_mutations_by_version,
                   mutation_counters, mutation_files, failed_parts, running_txns, kill, ins, mut,
                   upd, ddl, opt, sync_mutex, in_progress_columns, shutdown_called, shutdown_pc,
                   mutation_wait_mutex, waiter, mutations_loaded, tmp_mutation_files,
                   mutation_file_entries, dest_data_parts, dest_increment, lockers, startup,
                   alter, committing_blocks_cv, cleared, granted_roles, max_level>>

\* no entry: the waiters are notified if there are mutations, then the cleanup task of
\* every timer that has elapsed is scheduled and the timer restarted
ScheduleJobCleanup ==
    /\ scheduler.pc = "nothing"
    /\ IF scheduler.has_mutations
       THEN MutationWaitMutexIsFree /\ waiter' = NotifyAll
       ELSE UNCHANGED waiter
    /\ scheduler' = [scheduler EXCEPT !.pc = "returned",
                        !.common_tasks = scheduler.elapsed,
                        !.elapsed = {},
                        !.result = scheduler.elapsed # {}]
    /\ UNCHANGED <<increment, committing_blocks, alloc_log, data_parts,
                   currently_merging_mutating_parts, tasks, merges_blocker, partition_blockers,
                   operations_lock, current_mutations_by_version, mutation_counters,
                   mutation_files, failed_parts, running_txns, kill, ins, mut, upd, ddl, opt,
                   sync_mutex, in_progress_columns, shutdown_called, shutdown_pc,
                   mutation_wait_mutex, mutations_loaded, tmp_mutation_files,
                   mutation_file_entries, dest_data_parts, dest_increment, lockers,
                   merges_with_ttl_counter, startup, alter, committing_blocks_cv, cleared,
                   granted_roles, max_level>>
(***************************************************************************)
(* Partition operations: stopMergesAndWait, DROP PART / PARTITION,         *)
(* TRUNCATE, REPLACE / ATTACH PARTITION FROM, MOVE PARTITION.              *)
(***************************************************************************)
IdleDdl ==
    [pc |-> "idle", op |-> "none", partition_id |-> <<>>, parts |-> {}, block |-> NoBlock,
     src_parts |-> 0]

InfosInPartition(parts, partition_id) ==
    {info \in ActiveInfos(parts) : info.partition_id = partition_id}

\* stopMergesAndWait: merges_blocker.cancel() under the background mutex; the caller
\* is DROP PART, DROP PARTITION or TRUNCATE ("drop") or MOVE PARTITION ("move")
StopMergesAndWait(d, op) ==
    /\ ddl[d].pc = "idle"
    /\ merges_blocker' = merges_blocker + 1
    /\ ddl' = [ddl EXCEPT ![d] = [IdleDdl EXCEPT !.pc = "draining", !.op = op]]
    /\ UNCHANGED <<increment, committing_blocks, alloc_log, data_parts,
                   currently_merging_mutating_parts, tasks, partition_blockers, operations_lock,
                   current_mutations_by_version, mutation_counters, mutation_files, failed_parts,
                   running_txns, kill, ins, mut, upd, opt, sync_mutex, in_progress_columns,
                   shutdown_called, shutdown_pc, mutation_wait_mutex, waiter, mutations_loaded,
                   tmp_mutation_files, mutation_file_entries, dest_data_parts, dest_increment,
                   lockers, merges_with_ttl_counter, startup, scheduler, alter,
                   committing_blocks_cv, cleared, granted_roles, max_level>>

\* stopMergesAndWait returns without waiting
StopMergesNotDrained(d) ==
    /\ ddl[d].pc = "draining"
    /\ ddl[d].op \in {"drop", "move"}
    /\ ddl' = [ddl EXCEPT ![d].pc = "stopped"]
    /\ UNCHANGED <<increment, committing_blocks, alloc_log, data_parts,
                   currently_merging_mutating_parts, tasks, merges_blocker, partition_blockers,
                   operations_lock, current_mutations_by_version, mutation_counters,
                   mutation_files, failed_parts, running_txns, kill, ins, mut, upd, opt,
                   sync_mutex, in_progress_columns, shutdown_called, shutdown_pc,
                   mutation_wait_mutex, waiter, mutations_loaded, tmp_mutation_files,
                   mutation_file_entries, dest_data_parts, dest_increment, lockers,
                   merges_with_ttl_counter, startup, scheduler, alter, committing_blocks_cv,
                   cleared, granted_roles, max_level>>

\* the loop of stopMergesAndWait ends: no part is tagged
StopMergesDrained(d) ==
    /\ ddl[d].pc = "draining"
    /\ ddl[d].op \in {"drop", "move"}
    /\ currently_merging_mutating_parts = {}
    /\ ddl' = [ddl EXCEPT ![d].pc = "stopped"]
    /\ UNCHANGED <<increment, committing_blocks, alloc_log, data_parts,
                   currently_merging_mutating_parts, tasks, merges_blocker, partition_blockers,
                   operations_lock, current_mutations_by_version, mutation_counters,
                   mutation_files, failed_parts, running_txns, kill, ins, mut, upd, opt,
                   sync_mutex, in_progress_columns, shutdown_called, shutdown_pc,
                   mutation_wait_mutex, waiter, mutations_loaded, tmp_mutation_files,
                   mutation_file_entries, dest_data_parts, dest_increment, lockers,
                   merges_with_ttl_counter, startup, scheduler, alter, committing_blocks_cv,
                   cleared, granted_roles, max_level>>

\* the wait times out: TIMEOUT_EXCEEDED, and the ActionLock is destroyed
StopMergesTimeout(d) ==
    /\ ddl[d].pc = "draining"
    /\ ddl[d].op \in {"drop", "move"}
    /\ currently_merging_mutating_parts # {}
    /\ merges_blocker' = merges_blocker - 1
    /\ ddl' = [ddl EXCEPT ![d] = IdleDdl]
    /\ UNCHANGED <<increment, committing_blocks, alloc_log, data_parts,
                   currently_merging_mutating_parts, tasks, partition_blockers, operations_lock,
                   current_mutations_by_version, mutation_counters, mutation_files, failed_parts,
                   running_txns, kill, ins, mut, upd, opt, sync_mutex, in_progress_columns,
                   shutdown_called, shutdown_pc, mutation_wait_mutex, waiter, mutations_loaded,
                   tmp_mutation_files, mutation_file_entries, dest_data_parts, dest_increment,
                   lockers, merges_with_ttl_counter, startup, scheduler, alter,
                   committing_blocks_cv, cleared, granted_roles, max_level>>

\* no part is covered
NoCoverage(old_parts) == {}

\* initCoverageWithNewEmptyParts
InitCoverageWithNewEmptyParts(old_parts) ==
    {[info EXCEPT !.level = info.level + 1] : info \in old_parts}

\* the parts DROP PARTITION p, DROP PARTITION ALL and DROP PART read; partition_id
\* is set for DROP PARTITION p only
DropScopes ==
    {[partition_id |-> pid, parts |-> InfosInPartition(data_parts, pid)] : pid \in PartitionIds}
        \cup {[partition_id |-> <<>>, parts |-> ActiveInfos(data_parts)]}
        \cup {[partition_id |-> <<>>, parts |-> {info}] : info \in ActiveInfos(data_parts)}

\* dropPartition and dropPart without a transaction: the operations lock is
\* taken and the parts to cover are read
DropReadParts(d) ==
    /\ ddl[d].pc = "stopped"
    /\ ddl[d].op = "drop"
    /\ operations_lock = "free"
    /\ operations_lock' = d
    /\ \E scope \in DropScopes :
        /\ \A info \in scope.parts : info.level < MaxLevel
        /\ ddl' = [ddl EXCEPT ![d].pc = "covering", ![d].parts = scope.parts,
                              ![d].partition_id = scope.partition_id]
    /\ UNCHANGED <<increment, committing_blocks, alloc_log, data_parts,
                   currently_merging_mutating_parts, tasks, merges_blocker, partition_blockers,
                   current_mutations_by_version, mutation_counters, mutation_files, failed_parts,
                   running_txns, kill, ins, mut, upd, opt, sync_mutex, in_progress_columns,
                   shutdown_called, shutdown_pc, mutation_wait_mutex, waiter, mutations_loaded,
                   tmp_mutation_files, mutation_file_entries, dest_data_parts, dest_increment,
                   lockers, merges_with_ttl_counter, startup, scheduler, alter,
                   committing_blocks_cv, cleared, granted_roles, max_level>>

AddEmptyParts(parts, new_parts) ==
    parts \cup {EmptyPart(info, "Active", PrehistoricTID) : info \in new_parts}

\* the parts one new part would cover
CoveredBy(parts, info) == {q \in ActiveParts(parts) : Contains(info, q.info)}

RECURSIVE ReplaceWithEmptyParts(_, _)
ReplaceWithEmptyParts(parts, new_parts) ==
    IF new_parts = {} THEN parts
    ELSE LET info == CHOOSE i \in new_parts : TRUE
         IN ReplaceWithEmptyParts(
                RenameTempPartAndReplace(parts, EmptyPart(info, "Active", PrehistoricTID)),
                new_parts \ {info})

\* renameAndCommitEmptyParts: every new part replaces the part it covers; an
\* exception (a part that cannot be added, more than one covered part) rolls the
\* transaction back
RenameAndCommitEmptyParts(parts, new_parts) ==
    IF \A info \in new_parts :
            /\ CanBeAdded(parts, EmptyPart(info, "Active", PrehistoricTID))
            /\ Cardinality(CoveredBy(parts, info)) <= 1
    THEN ReplaceWithEmptyParts(parts, new_parts)
    ELSE parts

\* whether renameAndCommitEmptyParts commits (no exception)
CanCommitEmptyParts(parts, new_parts) ==
    \A info \in new_parts :
        /\ CanBeAdded(parts, EmptyPart(info, "Active", PrehistoricTID))
        /\ Cardinality(CoveredBy(parts, info)) <= 1

\* the empty parts are committed; the operations lock and the blocker are released
\* at the end of the scope; an exception of renameAndCommitEmptyParts ends the call
DropCommit(d) ==
    /\ ddl[d].pc = "covering"
    /\ data_parts' =
            RenameAndCommitEmptyParts(data_parts, InitCoverageWithNewEmptyParts(ddl[d].parts))
    /\ operations_lock' = "free"
    /\ merges_blocker' = merges_blocker - 1
    /\ ddl' = IF CanCommitEmptyParts(data_parts, InitCoverageWithNewEmptyParts(ddl[d].parts))
              THEN [ddl EXCEPT ![d].pc = "clearing"]
              ELSE [ddl EXCEPT ![d] = IdleDdl]
    /\ UNCHANGED <<increment, committing_blocks, alloc_log, currently_merging_mutating_parts,
                   tasks, partition_blockers, current_mutations_by_version, mutation_counters,
                   mutation_files, failed_parts, running_txns, kill, ins, mut, upd, opt,
                   sync_mutex, in_progress_columns, shutdown_called, shutdown_pc,
                   mutation_wait_mutex, waiter, mutations_loaded, tmp_mutation_files,
                   mutation_file_entries, dest_data_parts, dest_increment, lockers,
                   merges_with_ttl_counter, startup, scheduler, alter, committing_blocks_cv,
                   cleared, granted_roles, max_level>>

\* the part is left as it is
PartLeftAlone(parts, info) == parts

\* outdatePart without force, as dropPartNoWaitNoThrow calls it for an empty part:
\* under the background mutex and the parts lock; a tagged part is left alone
OutdatePartNoForce(parts, info) ==
    IF IsTagged(info) THEN parts ELSE Outdate(parts, {info})

ClearEmptyParts ==
    /\ \E p \in ActiveParts(data_parts) :
        /\ p.empty
        /\ data_parts' = OutdatePartNoForce(data_parts, p.info)
    /\ UNCHANGED <<increment, committing_blocks, alloc_log, currently_merging_mutating_parts,
                   tasks, merges_blocker, partition_blockers, operations_lock,
                   current_mutations_by_version, mutation_counters, mutation_files, failed_parts,
                   running_txns, kill, ins, mut, upd, ddl, opt, sync_mutex, in_progress_columns,
                   shutdown_called, shutdown_pc, mutation_wait_mutex, waiter, mutations_loaded,
                   tmp_mutation_files, mutation_file_entries, dest_data_parts, dest_increment,
                   lockers, merges_with_ttl_counter, startup, scheduler, alter,
                   committing_blocks_cv, cleared, granted_roles, max_level>>

\* clearEmptyParts: dropPartNoWaitNoThrow for every empty Active part
RECURSIVE ClearedEmptyParts(_, _)
ClearedEmptyParts(parts, infos) ==
    IF infos = {} THEN parts
    ELSE LET info == CHOOSE i \in infos : TRUE
         IN ClearedEmptyParts(OutdatePartNoForce(parts, info), infos \ {info})

\* the end of dropPartition and dropPart: clearEmptyParts(), then the call returns
DropClearEmptyParts(d) ==
    /\ ddl[d].pc = "clearing"
    /\ data_parts' = ClearedEmptyParts(data_parts,
                        {p.info : p \in {q \in ActiveParts(data_parts) : q.empty}})
    /\ ddl' = [ddl EXCEPT ![d] = IdleDdl]
    /\ UNCHANGED <<increment, committing_blocks, alloc_log, currently_merging_mutating_parts,
                   tasks, merges_blocker, partition_blockers, operations_lock,
                   current_mutations_by_version, mutation_counters, mutation_files, failed_parts,
                   running_txns, kill, ins, mut, upd, opt, sync_mutex, in_progress_columns,
                   shutdown_called, shutdown_pc, mutation_wait_mutex, waiter, mutations_loaded,
                   tmp_mutation_files, mutation_file_entries, dest_data_parts, dest_increment,
                   lockers, merges_with_ttl_counter, startup, scheduler, alter,
                   committing_blocks_cv, cleared, granted_roles, max_level>>

\* movePartitionToTable: the parts of the partition are read; more than
\* max_parts_to_move of them are refused below
MoveReadParts(d) ==
    /\ ddl[d].pc = "stopped"
    /\ ddl[d].op = "move"
    /\ \E pid \in PartitionIds :
        /\ InfosInPartition(data_parts, pid) # {}
        /\ Cardinality(InfosInPartition(data_parts, pid)) <= max_parts_to_move
        /\ ddl' = [ddl EXCEPT ![d].pc = "cloning", ![d].partition_id = pid,
                              ![d].parts = InfosInPartition(data_parts, pid)]
    /\ UNCHANGED <<increment, committing_blocks, alloc_log, data_parts,
                   currently_merging_mutating_parts, tasks, merges_blocker, partition_blockers,
                   operations_lock, current_mutations_by_version, mutation_counters,
                   mutation_files, failed_parts, running_txns, kill, ins, mut, upd, opt,
                   sync_mutex, in_progress_columns, shutdown_called, shutdown_pc,
                   mutation_wait_mutex, waiter, mutations_loaded, tmp_mutation_files,
                   mutation_file_entries, dest_data_parts, dest_increment, lockers,
                   merges_with_ttl_counter, startup, scheduler, alter, committing_blocks_cv,
                   cleared, granted_roles, max_level>>

\* src_parts.size() > max_parts_to_move: TOO_MANY_PARTS, and merges_blocker is
\* destroyed by the throw
MoveTooManyParts(d) ==
    /\ ddl[d].pc = "stopped"
    /\ ddl[d].op = "move"
    /\ \E pid \in PartitionIds :
        Cardinality(InfosInPartition(data_parts, pid)) > max_parts_to_move
    /\ merges_blocker' = merges_blocker - 1
    /\ ddl' = [ddl EXCEPT ![d] = IdleDdl]
    /\ UNCHANGED <<increment, committing_blocks, alloc_log, data_parts,
                   currently_merging_mutating_parts, tasks, partition_blockers, operations_lock,
                   current_mutations_by_version, mutation_counters, mutation_files, failed_parts,
                   running_txns, kill, ins, mut, upd, opt, sync_mutex, in_progress_columns,
                   shutdown_called, shutdown_pc, mutation_wait_mutex, waiter, mutations_loaded,
                   tmp_mutation_files, mutation_file_entries, dest_data_parts, dest_increment,
                   lockers, merges_with_ttl_counter, startup, scheduler, alter,
                   committing_blocks_cv, cleared, granted_roles, max_level>>

\* movePartitionToTable with nothing to move returns
MoveNothing(d) ==
    /\ ddl[d].pc = "stopped"
    /\ ddl[d].op = "move"
    /\ \E pid \in PartitionIds : InfosInPartition(data_parts, pid) = {}
    /\ merges_blocker' = merges_blocker - 1
    /\ ddl' = [ddl EXCEPT ![d] = IdleDdl]
    /\ UNCHANGED <<increment, committing_blocks, alloc_log, data_parts,
                   currently_merging_mutating_parts, tasks, partition_blockers, operations_lock,
                   current_mutations_by_version, mutation_counters, mutation_files, failed_parts,
                   running_txns, kill, ins, mut, upd, opt, sync_mutex, in_progress_columns,
                   shutdown_called, shutdown_pc, mutation_wait_mutex, waiter, mutations_loaded,
                   tmp_mutation_files, mutation_file_entries, dest_data_parts, dest_increment,
                   lockers, merges_with_ttl_counter, startup, scheduler, alter,
                   committing_blocks_cv, cleared, granted_roles, max_level>>

\* the source part with the lowest block range
FirstOf(infos) == CHOOSE info \in infos : \A other \in infos : info.min_block <= other.min_block

\* the loop over dst_parts: the first n parts are named by the destination's
\* fillNewPartName and added by renameTempPartAndReplaceUnlocked
RECURSIVE AddMovedParts(_, _, _, _)
AddMovedParts(dest, infos, n, counter) ==
    IF n = 0 \/ infos = {} THEN dest
    ELSE LET src == FirstOf(infos)
         IN AddMovedParts(
                RenameTempPartAndReplace(dest,
                    Part(FillNewPartName(PartInfo(src.partition_id, 0, 0, src.level, 0),
                                         NextBlockNumber(counter)),
                         "Active", PrehistoricTID)),
                infos \ {src}, n - 1, NextBlockNumber(counter))

\* the infos the destination's fillNewPartName gives to n parts after counter
MovedInfos(infos, n, counter) ==
    {p.info : p \in AddMovedParts({}, infos, n, counter)}

\* ~Transaction without commit: rollback takes the parts it added out of the
\* working set
TransactionRollback(dest, added) == Outdate(dest, added)

\* the parts are added to the destination, removed from this table's working set
\* and the destination's transaction is committed, under both parts locks
MoveCommit(d) ==
    /\ ddl[d].pc = "cloning"
    /\ ddl[d].op = "move"
    /\ dest_increment + Cardinality(ddl[d].parts) <= MaxBlock
    /\ dest_data_parts' =
            AddMovedParts(dest_data_parts, ddl[d].parts, Cardinality(ddl[d].parts), dest_increment)
    /\ dest_increment' = Advance(dest_increment, Cardinality(ddl[d].parts))
    /\ data_parts' = Outdate(data_parts, ddl[d].parts)
    /\ ddl' = [ddl EXCEPT ![d].pc = "moved", ![d].block = dest_increment]
    /\ UNCHANGED <<increment, committing_blocks, alloc_log, currently_merging_mutating_parts,
                   tasks, merges_blocker, partition_blockers, operations_lock,
                   current_mutations_by_version, mutation_counters, mutation_files, failed_parts,
                   running_txns, kill, ins, mut, upd, opt, sync_mutex, in_progress_columns,
                   shutdown_called, shutdown_pc, mutation_wait_mutex, waiter, mutations_loaded,
                   tmp_mutation_files, mutation_file_entries, lockers, merges_with_ttl_counter,
                   startup, scheduler, alter, committing_blocks_cv, cleared, granted_roles,
                   max_level>>

\* renameTempPartAndReplaceUnlocked throws for the k-th part: the transaction of the
\* destination rolls back the parts added so far; removePartsFromWorkingSet has not
\* run
MoveRenameFails(d) ==
    /\ ddl[d].pc = "cloning"
    /\ ddl[d].op = "move"
    /\ \E k \in 1..Cardinality(ddl[d].parts) :
        /\ dest_increment + k <= MaxBlock
        /\ dest_data_parts' =
                TransactionRollback(
                    AddMovedParts(dest_data_parts, ddl[d].parts, k - 1, dest_increment),
                    MovedInfos(ddl[d].parts, k - 1, dest_increment))
        /\ dest_increment' = Advance(dest_increment, k)
    /\ ddl' = [ddl EXCEPT ![d].pc = "move_failed", ![d].block = dest_increment]
    /\ UNCHANGED <<increment, committing_blocks, alloc_log, data_parts,
                   currently_merging_mutating_parts, tasks, merges_blocker, partition_blockers,
                   operations_lock, current_mutations_by_version, mutation_counters,
                   mutation_files, failed_parts, running_txns, kill, ins, mut, upd, opt,
                   sync_mutex, in_progress_columns, shutdown_called, shutdown_pc,
                   mutation_wait_mutex, waiter, mutations_loaded, tmp_mutation_files,
                   mutation_file_entries, lockers, merges_with_ttl_counter, startup, scheduler,
                   alter, committing_blocks_cv, cleared, granted_roles, max_level>>

\* transaction.commit throws: removePartsFromWorkingSet has already taken the source
\* parts out of this table's working set, and the transaction of the destination
\* rolls back the parts it added
MoveCommitFails(d) ==
    /\ ddl[d].pc = "cloning"
    /\ ddl[d].op = "move"
    /\ dest_increment + Cardinality(ddl[d].parts) <= MaxBlock
    /\ dest_data_parts' =
            TransactionRollback(
                AddMovedParts(dest_data_parts, ddl[d].parts, Cardinality(ddl[d].parts),
                              dest_increment),
                MovedInfos(ddl[d].parts, Cardinality(ddl[d].parts), dest_increment))
    /\ dest_increment' = Advance(dest_increment, Cardinality(ddl[d].parts))
    /\ data_parts' = Outdate(data_parts, ddl[d].parts)
    /\ ddl' = [ddl EXCEPT ![d].pc = "move_failed", ![d].block = dest_increment]
    /\ UNCHANGED <<increment, committing_blocks, alloc_log, currently_merging_mutating_parts,
                   tasks, merges_blocker, partition_blockers, operations_lock,
                   current_mutations_by_version, mutation_counters, mutation_files, failed_parts,
                   running_txns, kill, ins, mut, upd, opt, sync_mutex, in_progress_columns,
                   shutdown_called, shutdown_pc, mutation_wait_mutex, waiter, mutations_loaded,
                   tmp_mutation_files, mutation_file_entries, lockers, merges_with_ttl_counter,
                   startup, scheduler, alter, committing_blocks_cv, cleared, granted_roles,
                   max_level>>

\* the statement returns or rethrows: merges_blocker is destroyed
MoveReturn(d) ==
    /\ ddl[d].pc \in {"moved", "move_failed"}
    /\ merges_blocker' = merges_blocker - 1
    /\ ddl' = [ddl EXCEPT ![d] = IdleDdl]
    /\ UNCHANGED <<increment, committing_blocks, alloc_log, data_parts,
                   currently_merging_mutating_parts, tasks, partition_blockers, operations_lock,
                   current_mutations_by_version, mutation_counters, mutation_files, failed_parts,
                   running_txns, kill, ins, mut, upd, opt, sync_mutex, in_progress_columns,
                   shutdown_called, shutdown_pc, mutation_wait_mutex, waiter, mutations_loaded,
                   tmp_mutation_files, mutation_file_entries, dest_data_parts, dest_increment,
                   lockers, merges_with_ttl_counter, startup, scheduler, alter,
                   committing_blocks_cv, cleared, granted_roles, max_level>>

\* replacePartitionFrom for a named partition: stopMergesAndWaitForPartition cancels
\* merges for the partition and reads the parts to wait for; replace tells REPLACE
\* PARTITION from ATTACH PARTITION FROM
ReplaceStopMerges(d, partition_id, replace) ==
    /\ ddl[d].pc = "idle"
    /\ partition_blockers' =
            [partition_blockers EXCEPT ![partition_id] = partition_blockers[partition_id] + 1]
    /\ ddl' = [ddl EXCEPT ![d] = [IdleDdl EXCEPT
                    !.pc = "draining",
                    !.op = IF replace THEN "replace" ELSE "attach_from",
                    !.partition_id = partition_id,
                    !.parts = InfosInPartition(data_parts, partition_id)]]
    /\ UNCHANGED <<increment, committing_blocks, alloc_log, data_parts,
                   currently_merging_mutating_parts, tasks, merges_blocker, operations_lock,
                   current_mutations_by_version, mutation_counters, mutation_files, failed_parts,
                   running_txns, kill, ins, mut, upd, opt, sync_mutex, in_progress_columns,
                   shutdown_called, shutdown_pc, mutation_wait_mutex, waiter, mutations_loaded,
                   tmp_mutation_files, mutation_file_entries, dest_data_parts, dest_increment,
                   lockers, merges_with_ttl_counter, startup, scheduler, alter,
                   committing_blocks_cv, cleared, granted_roles, max_level>>

\* none of parts_to_wait is tagged: stopMergesAndWaitForPartition returns the
\* ActionLock, which replacePartitionFrom keeps in a variable of the else block, so
\* it is destroyed right there; then the parts of the source table are read
ReplaceDrained(d) ==
    /\ ddl[d].pc = "draining"
    /\ ddl[d].op \in {"replace", "attach_from"}
    /\ \A info \in ddl[d].parts : ~IsTagged(info)
    /\ partition_blockers' =
            [partition_blockers EXCEPT ![ddl[d].partition_id] =
                partition_blockers[ddl[d].partition_id] - 1]
    /\ \E n \in 0..MaxSourceParts :
        ddl' = [ddl EXCEPT ![d].pc = "cloning", ![d].parts = {}, ![d].src_parts = n]
    /\ UNCHANGED <<increment, committing_blocks, alloc_log, data_parts,
                   currently_merging_mutating_parts, tasks, merges_blocker, operations_lock,
                   current_mutations_by_version, mutation_counters, mutation_files, failed_parts,
                   running_txns, kill, ins, mut, upd, opt, sync_mutex, in_progress_columns,
                   shutdown_called, shutdown_pc, mutation_wait_mutex, waiter, mutations_loaded,
                   tmp_mutation_files, mutation_file_entries, dest_data_parts, dest_increment,
                   lockers, merges_with_ttl_counter, startup, scheduler, alter,
                   committing_blocks_cv, cleared, granted_roles, max_level>>

\* the wait times out: TIMEOUT_EXCEEDED
ReplaceDrainTimeout(d) ==
    /\ ddl[d].pc = "draining"
    /\ ddl[d].op \in {"replace", "attach_from"}
    /\ \E info \in ddl[d].parts : IsTagged(info)
    /\ partition_blockers' =
            [partition_blockers EXCEPT ![ddl[d].partition_id] =
                partition_blockers[ddl[d].partition_id] - 1]
    /\ ddl' = [ddl EXCEPT ![d] = IdleDdl]
    /\ UNCHANGED <<increment, committing_blocks, alloc_log, data_parts,
                   currently_merging_mutating_parts, tasks, merges_blocker, operations_lock,
                   current_mutations_by_version, mutation_counters, mutation_files, failed_parts,
                   running_txns, kill, ins, mut, upd, opt, sync_mutex, in_progress_columns,
                   shutdown_called, shutdown_pc, mutation_wait_mutex, waiter, mutations_loaded,
                   tmp_mutation_files, mutation_file_entries, dest_data_parts, dest_increment,
                   lockers, merges_with_ttl_counter, startup, scheduler, alter,
                   committing_blocks_cv, cleared, granted_roles, max_level>>

\* ATTACH PARTITION FROM with an empty part set returns
AttachFromNothing(d) ==
    /\ ddl[d].pc = "cloning"
    /\ ddl[d].op = "attach_from"
    /\ ddl[d].src_parts = 0
    /\ ddl' = [ddl EXCEPT ![d] = IdleDdl]
    /\ UNCHANGED <<increment, committing_blocks, alloc_log, data_parts,
                   currently_merging_mutating_parts, tasks, merges_blocker, partition_blockers,
                   operations_lock, current_mutations_by_version, mutation_counters,
                   mutation_files, failed_parts, running_txns, kill, ins, mut, upd, opt,
                   sync_mutex, in_progress_columns, shutdown_called, shutdown_pc,
                   mutation_wait_mutex, waiter, mutations_loaded, tmp_mutation_files,
                   mutation_file_entries, dest_data_parts, dest_increment, lockers,
                   merges_with_ttl_counter, startup, scheduler, alter, committing_blocks_cv,
                   cleared, granted_roles, max_level>>

\* REPLACE: drop_range.max_block = allocateBlockNumber(NewPart).number
ReplaceAllocateDropRange(d) ==
    /\ ddl[d].pc = "cloning"
    /\ ddl[d].op = "replace"
    /\ ddl' = [ddl EXCEPT ![d].pc = "allocated", ![d].block = AllocatedBlock("NewPart").number]
    /\ AllocateBlockNumber("NewPart")
    /\ UNCHANGED <<alloc_log, data_parts, currently_merging_mutating_parts, tasks, merges_blocker,
                   partition_blockers, operations_lock, current_mutations_by_version,
                   mutation_counters, mutation_files, failed_parts, running_txns, kill, ins, mut,
                   upd, opt, sync_mutex, in_progress_columns, shutdown_called, shutdown_pc,
                   mutation_wait_mutex, waiter, mutations_loaded, tmp_mutation_files,
                   mutation_file_entries, dest_data_parts, dest_increment, lockers,
                   merges_with_ttl_counter, startup, scheduler, alter, committing_blocks_cv,
                   cleared, granted_roles, max_level>>

\* the destination parts, each named by fillNewPartName after the next block number
RECURSIVE AddReplacingParts(_, _, _, _)
AddReplacingParts(parts, partition_id, n, counter) ==
    IF n = 0 THEN parts
    ELSE AddReplacingParts(
            RenameTempPartAndReplace(parts,
                Part(FillNewPartName(PartInfo(partition_id, 0, 0, 0, 0), NextBlockNumber(counter)),
                     "Active", PrehistoricTID)),
            partition_id, n - 1, NextBlockNumber(counter))

\* removePartsInRangeFromWorkingSet(drop_range) with min_block = 0 and the maximal
\* level: the Active parts of the partition up to drop_range.max_block
RemovePartsInRangeFromWorkingSet(parts, partition_id, max_block) ==
    Outdate(parts, {info \in InfosInPartition(parts, partition_id) : info.max_block <= max_block})

\* the critical section of replacePartitionFrom: the new parts are named and added,
\* the transaction committed and, for REPLACE, the parts of the drop range removed;
\* the block holders of the new parts are destroyed with the scope
ReplaceCommit(d) ==
    /\ \/ ddl[d].pc = "allocated" /\ ddl[d].op = "replace"
       \/ ddl[d].pc = "cloning" /\ ddl[d].op = "attach_from" /\ ddl[d].src_parts > 0
    /\ increment + ddl[d].src_parts <= MaxBlock
    /\ increment' = Advance(increment, ddl[d].src_parts)
    /\ LET added == AddReplacingParts(data_parts, ddl[d].partition_id, ddl[d].src_parts,
                                      increment)
       IN data_parts' =
            IF ddl[d].op = "replace"
            THEN RemovePartsInRangeFromWorkingSet(added, ddl[d].partition_id, ddl[d].block)
            ELSE added
    /\ ddl' = [ddl EXCEPT ![d].pc = "replaced"]
    /\ UNCHANGED <<committing_blocks, alloc_log, currently_merging_mutating_parts, tasks,
                   merges_blocker, partition_blockers, operations_lock,
                   current_mutations_by_version, mutation_counters, mutation_files, failed_parts,
                   running_txns, kill, ins, mut, upd, opt, sync_mutex, in_progress_columns,
                   shutdown_called, shutdown_pc, mutation_wait_mutex, waiter, mutations_loaded,
                   tmp_mutation_files, mutation_file_entries, dest_data_parts, dest_increment,
                   lockers, merges_with_ttl_counter, startup, scheduler, alter,
                   committing_blocks_cv, cleared, granted_roles, max_level>>

\* after the critical section: PartLog::addNewParts, then the statement returns
ReplaceReturn(d) ==
    /\ ddl[d].pc = "replaced"
    /\ ddl' = [ddl EXCEPT ![d] = IdleDdl]
    /\ UNCHANGED <<increment, committing_blocks, alloc_log, data_parts,
                   currently_merging_mutating_parts, tasks, merges_blocker, partition_blockers,
                   operations_lock, current_mutations_by_version, mutation_counters,
                   mutation_files, failed_parts, running_txns, kill, ins, mut, upd, opt,
                   sync_mutex, in_progress_columns, shutdown_called, shutdown_pc,
                   mutation_wait_mutex, waiter, mutations_loaded, tmp_mutation_files,
                   mutation_file_entries, dest_data_parts, dest_increment, lockers,
                   merges_with_ttl_counter, startup, scheduler, alter, committing_blocks_cv,
                   cleared, granted_roles, max_level>>

(***************************************************************************)
(* OPTIMIZE: merge() with a partition.                                     *)
(***************************************************************************)
IdleOptimize == [pc |-> "idle", partition_id |-> <<>>, seen |-> {}, waited |-> 0, total |-> 0]

\* what select_in_partition may choose
PartitionMergeChoices(partition_id, final) ==
    IF final THEN FinalMergeChoices(partition_id) ELSE MergeChoices(partition_id)

\* the entry of a merge that executeHere runs at once
RunningMergeEntry(infos) == [MergeSelectEntry(infos) EXCEPT !.pc = "running"]

\* merge(): merges are not cancelled for the partition, parts are selected and the
\* task is run
OptimizeSelect(t, partition_id, final) ==
    /\ opt.pc = "idle"
    /\ tasks[t].pc = "free"
    /\ ~IsCancelledForPartition(partition_id)
    /\ \E infos \in PartitionMergeChoices(partition_id, final) :
        /\ CanTag(infos)
        /\ currently_merging_mutating_parts' = Tagged(infos)
        /\ tasks' = [tasks EXCEPT ![t] = RunningMergeEntry(infos)]
    /\ UNCHANGED <<increment, committing_blocks, alloc_log, data_parts, merges_blocker,
                   partition_blockers, operations_lock, current_mutations_by_version,
                   mutation_counters, mutation_files, failed_parts, running_txns, kill, ins, mut,
                   upd, ddl, opt, sync_mutex, in_progress_columns, shutdown_called, shutdown_pc,
                   mutation_wait_mutex, waiter, mutations_loaded, tmp_mutation_files,
                   mutation_file_entries, dest_data_parts, dest_increment, lockers,
                   merges_with_ttl_counter, startup, scheduler, alter, committing_blocks_cv,
                   cleared, granted_roles, max_level>>

\* merge() with final: nothing can be selected while parts are tagged, so the call
\* waits on currently_processing_in_background_condition
OptimizeFinalWait(partition_id) ==
    /\ opt.pc = "idle"
    /\ ~IsCancelledForPartition(partition_id)
    /\ FinalMergeChoices(partition_id) = {}
    /\ currently_merging_mutating_parts # {}
    /\ opt' = [IdleOptimize EXCEPT !.pc = "waiting", !.partition_id = partition_id]
    /\ UNCHANGED <<increment, committing_blocks, alloc_log, data_parts,
                   currently_merging_mutating_parts, tasks, merges_blocker, partition_blockers,
                   operations_lock, current_mutations_by_version, mutation_counters,
                   mutation_files, failed_parts, running_txns, kill, ins, mut, upd, ddl,
                   sync_mutex, in_progress_columns, shutdown_called, shutdown_pc,
                   mutation_wait_mutex, waiter, mutations_loaded, tmp_mutation_files,
                   mutation_file_entries, dest_data_parts, dest_increment, lockers,
                   merges_with_ttl_counter, startup, scheduler, alter, committing_blocks_cv,
                   cleared, granted_roles, max_level>>

\* the wait returns without a timeout and the loop selects again
OptimizeFinalRetry(t) ==
    /\ opt.pc = "waiting"
    /\ tasks[t].pc = "free"
    /\ \E infos \in FinalMergeChoices(opt.partition_id) :
        /\ CanTag(infos)
        /\ currently_merging_mutating_parts' = Tagged(infos)
        /\ tasks' = [tasks EXCEPT ![t] = RunningMergeEntry(infos)]
    /\ opt' = IdleOptimize
    /\ UNCHANGED <<increment, committing_blocks, alloc_log, data_parts, merges_blocker,
                   partition_blockers, operations_lock, current_mutations_by_version,
                   mutation_counters, mutation_files, failed_parts, running_txns, kill, ins, mut,
                   upd, ddl, sync_mutex, in_progress_columns, shutdown_called, shutdown_pc,
                   mutation_wait_mutex, waiter, mutations_loaded, tmp_mutation_files,
                   mutation_file_entries, dest_data_parts, dest_increment, lockers,
                   merges_with_ttl_counter, startup, scheduler, alter, committing_blocks_cv,
                   cleared, granted_roles, max_level>>

\* the wait times out, or the next selection fails with no part tagged
OptimizeFinalGiveUp ==
    /\ opt.pc = "waiting"
    /\ opt' = IdleOptimize
    /\ UNCHANGED <<increment, committing_blocks, alloc_log, data_parts,
                   currently_merging_mutating_parts, tasks, merges_blocker, partition_blockers,
                   operations_lock, current_mutations_by_version, mutation_counters,
                   mutation_files, failed_parts, running_txns, kill, ins, mut, upd, ddl,
                   sync_mutex, in_progress_columns, shutdown_called, shutdown_pc,
                   mutation_wait_mutex, waiter, mutations_loaded, tmp_mutation_files,
                   mutation_file_entries, dest_data_parts, dest_increment, lockers,
                   merges_with_ttl_counter, startup, scheduler, alter, committing_blocks_cv,
                   cleared, granted_roles, max_level>>

(***************************************************************************)
(* OPTIMIZE ... FINAL: select_in_partition with its waits and their time.  *)
(***************************************************************************)
\* lock_acquire_timeout_for_background_operations, in ticks of the clock
lock_acquire_timeout_for_background_operations == 2
\* the clock of the model stops a call that has waited this many ticks
MaxTotalWait == 4

\* selectAllPartsToMergeWithinPartition with final gives no choice
SelectInPartitionFails(partition_id) ==
    \A infos \in FinalMergeChoices(partition_id) : ~CanTag(infos)

\* the loop of select_in_partition is at its head: the call begins, or a wait has
\* returned without a timeout
AtLoopHead(partition_id) ==
    \/ opt.pc = "idle"
    \/ opt.pc = "woken" /\ opt.partition_id = partition_id

\* the selection succeeds: the entry is made and executeHere runs the merge
SelectInPartitionSelects(t, partition_id) ==
    /\ AtLoopHead(partition_id)
    /\ tasks[t].pc = "free"
    /\ \E infos \in FinalMergeChoices(partition_id) :
        /\ CanTag(infos)
        /\ currently_merging_mutating_parts' = Tagged(infos)
        /\ tasks' = [tasks EXCEPT ![t] = RunningMergeEntry(infos)]
    /\ opt' = IdleOptimize
    /\ UNCHANGED <<increment, committing_blocks, alloc_log, data_parts, merges_blocker,
                   partition_blockers, operations_lock, current_mutations_by_version,
                   mutation_counters, mutation_files, failed_parts, running_txns, kill, ins, mut,
                   upd, ddl, sync_mutex, in_progress_columns, shutdown_called, shutdown_pc,
                   mutation_wait_mutex, waiter, mutations_loaded, tmp_mutation_files,
                   mutation_file_entries, dest_data_parts, dest_increment, lockers,
                   merges_with_ttl_counter, startup, scheduler, alter, committing_blocks_cv,
                   cleared, granted_roles, max_level>>

\* the selection fails and currently_merging_mutating_parts is not empty: wait_for
SelectInPartitionWaits(partition_id) ==
    /\ AtLoopHead(partition_id)
    /\ SelectInPartitionFails(partition_id)
    /\ currently_merging_mutating_parts # {}
    /\ opt' = [opt EXCEPT !.pc = "waiting", !.partition_id = partition_id,
                    !.seen = currently_merging_mutating_parts, !.waited = 0]
    /\ UNCHANGED <<increment, committing_blocks, alloc_log, data_parts,
                   currently_merging_mutating_parts, tasks, merges_blocker, partition_blockers,
                   operations_lock, current_mutations_by_version, mutation_counters,
                   mutation_files, failed_parts, running_txns, kill, ins, mut, upd, ddl,
                   sync_mutex, in_progress_columns, shutdown_called, shutdown_pc,
                   mutation_wait_mutex, waiter, mutations_loaded, tmp_mutation_files,
                   mutation_file_entries, dest_data_parts, dest_increment, lockers,
                   merges_with_ttl_counter, startup, scheduler, alter, committing_blocks_cv,
                   cleared, granted_roles, max_level>>

\* the selection fails and nothing is tagged: the failure is returned
SelectInPartitionReturnsFailure(partition_id) ==
    /\ AtLoopHead(partition_id)
    /\ SelectInPartitionFails(partition_id)
    /\ currently_merging_mutating_parts = {}
    /\ opt' = IdleOptimize
    /\ UNCHANGED <<increment, committing_blocks, alloc_log, data_parts,
                   currently_merging_mutating_parts, tasks, merges_blocker, partition_blockers,
                   operations_lock, current_mutations_by_version, mutation_counters,
                   mutation_files, failed_parts, running_txns, kill, ins, mut, upd, ddl,
                   sync_mutex, in_progress_columns, shutdown_called, shutdown_pc,
                   mutation_wait_mutex, waiter, mutations_loaded, tmp_mutation_files,
                   mutation_file_entries, dest_data_parts, dest_increment, lockers,
                   merges_with_ttl_counter, startup, scheduler, alter, committing_blocks_cv,
                   cleared, granted_roles, max_level>>

\* time passes while the call waits
SelectInPartitionTick ==
    /\ opt.pc = "waiting"
    /\ opt.waited < lock_acquire_timeout_for_background_operations
    /\ opt.total < MaxTotalWait
    /\ opt' = [opt EXCEPT !.waited = @ + 1, !.total = @ + 1]
    /\ UNCHANGED <<increment, committing_blocks, alloc_log, data_parts,
                   currently_merging_mutating_parts, tasks, merges_blocker, partition_blockers,
                   operations_lock, current_mutations_by_version, mutation_counters,
                   mutation_files, failed_parts, running_txns, kill, ins, mut, upd, ddl,
                   sync_mutex, in_progress_columns, shutdown_called, shutdown_pc,
                   mutation_wait_mutex, waiter, mutations_loaded, tmp_mutation_files,
                   mutation_file_entries, dest_data_parts, dest_increment, lockers,
                   merges_with_ttl_counter, startup, scheduler, alter, committing_blocks_cv,
                   cleared, granted_roles, max_level>>

\* a tagger was destroyed and notified the condition: wait_for returns no_timeout
SelectInPartitionWakes ==
    /\ opt.pc = "waiting"
    /\ opt.seen \ currently_merging_mutating_parts # {}
    /\ opt' = [opt EXCEPT !.pc = "woken"]
    /\ UNCHANGED <<increment, committing_blocks, alloc_log, data_parts,
                   currently_merging_mutating_parts, tasks, merges_blocker, partition_blockers,
                   operations_lock, current_mutations_by_version, mutation_counters,
                   mutation_files, failed_parts, running_txns, kill, ins, mut, upd, ddl,
                   sync_mutex, in_progress_columns, shutdown_called, shutdown_pc,
                   mutation_wait_mutex, waiter, mutations_loaded, tmp_mutation_files,
                   mutation_file_entries, dest_data_parts, dest_increment, lockers,
                   merges_with_ttl_counter, startup, scheduler, alter, committing_blocks_cv,
                   cleared, granted_roles, max_level>>

\* wait_for returns timeout: CANNOT_SELECT
SelectInPartitionTimeout ==
    /\ opt.pc = "waiting"
    /\ opt.waited = lock_acquire_timeout_for_background_operations
    /\ opt' = IdleOptimize
    /\ UNCHANGED <<increment, committing_blocks, alloc_log, data_parts,
                   currently_merging_mutating_parts, tasks, merges_blocker, partition_blockers,
                   operations_lock, current_mutations_by_version, mutation_counters,
                   mutation_files, failed_parts, running_txns, kill, ins, mut, upd, ddl,
                   sync_mutex, in_progress_columns, shutdown_called, shutdown_pc,
                   mutation_wait_mutex, waiter, mutations_loaded, tmp_mutation_files,
                   mutation_file_entries, dest_data_parts, dest_increment, lockers,
                   merges_with_ttl_counter, startup, scheduler, alter, committing_blocks_cv,
                   cleared, granted_roles, max_level>>
(***************************************************************************)
(* Transactions, the status of mutations, clearOldMutations, killMutation. *)
(***************************************************************************)
\* a transaction begins; a tid is used once
BeginTransaction(tid) ==
    /\ mutations_loaded
    /\ tid \notin running_txns
    /\ \A part \in data_parts : part.creation_tid # tid
    /\ \A v \in DOMAIN current_mutations_by_version : current_mutations_by_version[v].tid # tid
    /\ mut.tid # tid
    /\ kill.tid # tid
    /\ running_txns' = running_txns \cup {tid}
    /\ UNCHANGED <<increment, committing_blocks, alloc_log, data_parts,
                   currently_merging_mutating_parts, tasks, merges_blocker, partition_blockers,
                   operations_lock, current_mutations_by_version, mutation_counters,
                   mutation_files, failed_parts, kill, ins, mut, upd, ddl, opt, sync_mutex,
                   in_progress_columns, shutdown_called, shutdown_pc, mutation_wait_mutex, waiter,
                   mutations_loaded, tmp_mutation_files, mutation_file_entries, dest_data_parts,
                   dest_increment, lockers, merges_with_ttl_counter, startup, scheduler, alter,
                   committing_blocks_cv, cleared, granted_roles, max_level>>

\* the tids a query may run under
QueryTids == {PrehistoricTID} \cup running_txns

\* getVisibleDataPartsVector(txn): the Active parts, filtered by the snapshot of txn
GetVisibleDataPartsVector(txn) ==
    IF txn = NoTransaction THEN ActiveParts(data_parts)
    ELSE {part \in ActiveParts(data_parts) : IsVisible(part, txn)}

\* a mutation that no part is below: the comparison is lost
NeverBelowVersion(data_version, mutation_version) == FALSE

\* data_version < mutation_version, also the comparator of getMutationsStatus
IsBelowVersion(data_version, mutation_version) == data_version < mutation_version

NotFoundStatus == [found |-> FALSE, is_done |-> FALSE]

\* getIncompleteMutationsStatusUnlocked
GetIncompleteMutationsStatus(mutation_version) ==
    IF mutation_version \notin DOMAIN current_mutations_by_version THEN NotFoundStatus
    ELSE LET txn == TryGetTransactionForMutation(current_mutations_by_version[mutation_version])
         IN [found |-> TRUE,
             is_done |-> ~\E part \in GetVisibleDataPartsVector(txn) :
                            IsBelowVersion(DataVersion(part.info), mutation_version)]

\* getMutationsStatus: parts_to_do_names of one entry, the parts before
\* lower_bound(mutation_version) in the vector sorted by data version
PartsToDo(mutation_version) ==
    {info \in ActiveInfos(data_parts) : IsBelowVersion(DataVersion(info), mutation_version)}

\* getMutationsStatus: one row per entry
GetMutationsStatus ==
    [v \in DOMAIN current_mutations_by_version |->
        [parts_to_do_names |-> PartsToDo(v), is_done |-> PartsToDo(v) = {}]]

\* the setting finished_mutations_to_keep
finished_mutations_to_keep == 1

\* getMinPartDataVersion: the data versions below which no Active part of parts is
VersionsUpToMinPartIn(parts) ==
    {v \in DOMAIN current_mutations_by_version :
        \A info \in ActiveInfos(parts) : v <= DataVersion(info)}

VersionsUpToMinPart == VersionsUpToMinPartIn(data_parts)

\* the entries clearOldMutations counts as done: from begin() up to
\* upper_bound(min_version), cut at the first entry of a transaction
DoneMutationsIn(parts) ==
    {v \in VersionsUpToMinPartIn(parts) :
        \A w \in VersionsUpToMinPartIn(parts) :
            w <= v => current_mutations_by_version[w].tid = PrehistoricTID}

DoneMutations == DoneMutationsIn(data_parts)

\* the last n keys of a set of versions
RECURSIVE LastVersions(_, _)
LastVersions(versions, n) ==
    IF n <= 0 \/ versions = {} THEN {}
    ELSE {MaxOf(versions)} \cup LastVersions(versions \ {MaxOf(versions)}, n - 1)

\* the first n keys of a set of versions
RECURSIVE FirstVersions(_, _)
FirstVersions(versions, n) ==
    IF n <= 0 \/ versions = {} THEN {}
    ELSE {MinOf(versions)} \cup FirstVersions(versions \ {MinOf(versions)}, n - 1)

\* the entry is kept in the map
KeptMutations(mutations, versions) == mutations

\* std::map::erase
ErasedMutations(mutations, versions) ==
    [v \in DOMAIN mutations \ versions |-> mutations[v]]

\* decrementMutationsCounters unless the entry is done already
DecrementMutationsCounters(counters, entry) ==
    IF entry.is_done THEN counters ELSE counters - 1

\* clearOldMutations with these parts in the registry: the map, the files and the
\* counters it leaves
ClearedOldMutations(parts, keep) ==
    LET done == DoneMutationsIn(parts)
        marked == [v \in DOMAIN current_mutations_by_version |->
                    IF v \in done
                    THEN [current_mutations_by_version[v] EXCEPT !.is_done = TRUE]
                    ELSE current_mutations_by_version[v]]
        to_delete == FirstVersions(DOMAIN current_mutations_by_version,
                                   Cardinality(done) - keep)
    IN [mutations |-> ErasedMutations(marked, to_delete),
        files |-> mutation_files \ to_delete,
        counters |-> mutation_counters -
            Cardinality({v \in done : ~current_mutations_by_version[v].is_done})]

\* clearOldMutations
ClearOldMutations(truncate) ==
    LET keep == IF truncate THEN 0 ELSE finished_mutations_to_keep
    IN /\ DoneMutations # {}
       /\ mutation_counters' = ClearedOldMutations(data_parts, keep).counters
       /\ current_mutations_by_version' = ClearedOldMutations(data_parts, keep).mutations
       /\ mutation_files' = ClearedOldMutations(data_parts, keep).files
       /\ UNCHANGED <<increment, committing_blocks, alloc_log, data_parts,
                      currently_merging_mutating_parts, tasks, merges_blocker, partition_blockers,
                      operations_lock, failed_parts, running_txns, kill, ins, mut, upd, ddl, opt,
                      sync_mutex, in_progress_columns, shutdown_called, shutdown_pc,
                      mutation_wait_mutex, waiter, mutations_loaded, tmp_mutation_files,
                      mutation_file_entries, dest_data_parts, dest_increment, lockers,
                      merges_with_ttl_counter, startup, scheduler, alter, committing_blocks_cv,
                      cleared, granted_roles, max_level>>

\* no clearOldMutations call has returned yet
NotCleared == [returned |-> FALSE, counters |-> 0, unfinished |-> 0]

\* the values of the setting finished_mutations_to_keep that are tried
KeepSettings == {0, finished_mutations_to_keep}

\* the entries of these mutations that some Active part is still below
UnfinishedIn(mutations) == {v \in DOMAIN mutations : PartsToDo(v) # {}}

\* clearOldMutations under a given value of the setting: with the value 0 and without
\* truncate it returns at once; the counters and the unfinished entries it leaves
\* are recorded
ClearOldMutationsKeeping(setting, truncate) ==
    LET keep == IF truncate THEN 0 ELSE setting
        returns_at_once == ~truncate /\ setting = 0
    IN /\ mutation_counters' =
            IF returns_at_once THEN mutation_counters
            ELSE ClearedOldMutations(data_parts, keep).counters
       /\ current_mutations_by_version' =
            IF returns_at_once THEN current_mutations_by_version
            ELSE ClearedOldMutations(data_parts, keep).mutations
       /\ mutation_files' =
            IF returns_at_once THEN mutation_files
            ELSE ClearedOldMutations(data_parts, keep).files
       /\ cleared' = [returned |-> TRUE, counters |-> mutation_counters',
                      unfinished |-> Cardinality(UnfinishedIn(current_mutations_by_version'))]
       /\ UNCHANGED <<increment, committing_blocks, alloc_log, data_parts,
                      currently_merging_mutating_parts, tasks, merges_blocker, partition_blockers,
                      operations_lock, failed_parts, running_txns, kill, ins, mut, upd, ddl, opt,
                      sync_mutex, in_progress_columns, shutdown_called, shutdown_pc,
                      mutation_wait_mutex, waiter, mutations_loaded, tmp_mutation_files,
                      mutation_file_entries, dest_data_parts, dest_increment, lockers,
                      merges_with_ttl_counter, startup, scheduler, alter, committing_blocks_cv,
                      granted_roles, max_level>>

(***************************************************************************)
(* killMutation.                                                           *)
(***************************************************************************)
IdleKill == [pc |-> "idle", version |-> NoBlock, tid |-> PrehistoricTID, result |-> "none"]

\* tryParseFileName gives 0: NotFound at once
KillMutationUnparsable ==
    /\ mutations_loaded
    /\ kill.pc = "idle"
    /\ kill' = [IdleKill EXCEPT !.result = "NotFound"]
    /\ UNCHANGED <<increment, committing_blocks, alloc_log, data_parts,
                   currently_merging_mutating_parts, tasks, merges_blocker, partition_blockers,
                   operations_lock, current_mutations_by_version, mutation_counters,
                   mutation_files, failed_parts, running_txns, ins, mut, upd, ddl, opt,
                   sync_mutex, in_progress_columns, shutdown_called, shutdown_pc,
                   mutation_wait_mutex, waiter, mutations_loaded, tmp_mutation_files,
                   mutation_file_entries, dest_data_parts, dest_increment, lockers,
                   merges_with_ttl_counter, startup, scheduler, alter, committing_blocks_cv,
                   cleared, granted_roles, max_level>>

\* killMutation up to the return of NotFound: the entry, if there is one, leaves the
\* map and the counters; the backoff policy is reset; without an entry the call
\* returns NotFound
KillMutationErase(mutation_version) ==
    /\ mutations_loaded
    /\ kill.pc = "idle"
    /\ IF mutation_version \in DOMAIN current_mutations_by_version
       THEN /\ mutation_counters' =
                    DecrementMutationsCounters(mutation_counters,
                        current_mutations_by_version[mutation_version])
            /\ current_mutations_by_version' =
                    ErasedMutations(current_mutations_by_version, {mutation_version})
            /\ kill' = [pc |-> "erased", version |-> mutation_version,
                        tid |-> current_mutations_by_version[mutation_version].tid,
                        result |-> "none"]
       ELSE /\ UNCHANGED <<mutation_counters, current_mutations_by_version>>
            /\ kill' = [IdleKill EXCEPT !.version = mutation_version, !.result = "NotFound"]
    /\ failed_parts' = {}
    /\ UNCHANGED <<increment, committing_blocks, alloc_log, data_parts,
                   currently_merging_mutating_parts, tasks, merges_blocker, partition_blockers,
                   operations_lock, mutation_files, running_txns, ins, mut, upd, ddl, opt,
                   sync_mutex, in_progress_columns, shutdown_called, shutdown_pc,
                   mutation_wait_mutex, waiter, mutations_loaded, tmp_mutation_files,
                   mutation_file_entries, dest_data_parts, dest_increment, lockers,
                   merges_with_ttl_counter, startup, scheduler, alter, committing_blocks_cv,
                   cleared, granted_roles, max_level>>

\* MergeList::cancelPartMutations(table, {}, mutation_version): the running mutations
\* from below the version to the version or above are cancelled
CancelPartMutations(mutation_version) ==
    [t \in Tasks |->
        IF /\ tasks[t].pc = "running"
           /\ tasks[t].kind = "mutate"
           /\ DataVersion(SourceOf(tasks[t])) < mutation_version
           /\ DataVersion(tasks[t].future) >= mutation_version
        THEN [tasks[t] EXCEPT !.is_cancelled = TRUE]
        ELSE tasks[t]]

\* killMutation with an entry: the transaction that started it is rolled back if it
\* still runs, the part mutations are cancelled, the file is removed, the waiters are
\* notified under mutation_wait_mutex
KillMutationFinish ==
    /\ kill.pc = "erased"
    /\ running_txns' = running_txns \ {kill.tid}
    /\ tasks' = CancelPartMutations(kill.version)
    /\ mutation_files' = mutation_files \ {kill.version}
    /\ MutationWaitMutexIsFree
    /\ waiter' = NotifyAll
    /\ kill' = [kill EXCEPT !.pc = "idle", !.result = "CancelSent"]
    /\ UNCHANGED <<increment, committing_blocks, alloc_log, data_parts,
                   currently_merging_mutating_parts, merges_blocker, partition_blockers,
                   operations_lock, current_mutations_by_version, mutation_counters, failed_parts,
                   ins, mut, upd, ddl, opt, sync_mutex, in_progress_columns, shutdown_called,
                   shutdown_pc, mutation_wait_mutex, mutations_loaded, tmp_mutation_files,
                   mutation_file_entries, dest_data_parts, dest_increment, lockers,
                   merges_with_ttl_counter, startup, scheduler, alter, committing_blocks_cv,
                   cleared, granted_roles, max_level>>

(***************************************************************************)
(* waitForMutation, the notify of the scheduler, shutdown.                 *)
(***************************************************************************)
\* the check lambda of waitForMutation; it runs with mutation_wait_mutex held and
\* takes the background mutex and the parts lock inside getIncompleteMutationsStatus
MutationWaitCheck(version) ==
    \/ shutdown_called
    \/ ~GetIncompleteMutationsStatus(version).found
    \/ GetIncompleteMutationsStatus(version).is_done
    \/ current_mutations_by_version[version].latest_fail_reason # ""

\* waitForMutation: std::unique_lock lock(mutation_wait_mutex)
WaitForMutation(version) ==
    /\ waiter.pc = "idle"
    /\ version \in DOMAIN current_mutations_by_version
    /\ MutationWaitMutexIsFree
    /\ mutation_wait_mutex' = "waiter"
    /\ waiter' = [IdleWaiter EXCEPT !.pc = "locked", !.version = version]
    /\ UNCHANGED <<increment, committing_blocks, alloc_log, data_parts,
                   currently_merging_mutating_parts, tasks, merges_blocker, partition_blockers,
                   operations_lock, current_mutations_by_version, mutation_counters,
                   mutation_files, failed_parts, running_txns, kill, ins, mut, upd, ddl, opt,
                   sync_mutex, in_progress_columns, shutdown_called, shutdown_pc,
                   mutations_loaded, tmp_mutation_files, mutation_file_entries, dest_data_parts,
                   dest_increment, lockers, merges_with_ttl_counter, startup, scheduler, alter,
                   committing_blocks_cv, cleared, granted_roles, max_level>>

\* mutation_wait_event.wait(lock, check): the predicate is evaluated under the mutex;
\* when it holds the wait is over and the mutex is released at the end of the block
WaiterCheck ==
    /\ waiter.pc = "locked"
    /\ IF MutationWaitCheck(waiter.version)
       THEN /\ waiter' = [waiter EXCEPT !.pc = "returned"]
            /\ mutation_wait_mutex' = "free"
       ELSE /\ waiter' = [waiter EXCEPT !.pc = "blocking"]
            /\ UNCHANGED mutation_wait_mutex
    /\ UNCHANGED <<increment, committing_blocks, alloc_log, data_parts,
                   currently_merging_mutating_parts, tasks, merges_blocker, partition_blockers,
                   operations_lock, current_mutations_by_version, mutation_counters,
                   mutation_files, failed_parts, running_txns, kill, ins, mut, upd, ddl, opt,
                   sync_mutex, in_progress_columns, shutdown_called, shutdown_pc,
                   mutations_loaded, tmp_mutation_files, mutation_file_entries, dest_data_parts,
                   dest_increment, lockers, merges_with_ttl_counter, startup, scheduler, alter,
                   committing_blocks_cv, cleared, granted_roles, max_level>>

\* the predicate was false: the thread releases the mutex and sleeps, atomically
WaiterSleep ==
    /\ waiter.pc = "blocking"
    /\ waiter' = [waiter EXCEPT !.pc = "sleeping", !.slept = TRUE]
    /\ mutation_wait_mutex' = "free"
    /\ UNCHANGED <<increment, committing_blocks, alloc_log, data_parts,
                   currently_merging_mutating_parts, tasks, merges_blocker, partition_blockers,
                   operations_lock, current_mutations_by_version, mutation_counters,
                   mutation_files, failed_parts, running_txns, kill, ins, mut, upd, ddl, opt,
                   sync_mutex, in_progress_columns, shutdown_called, shutdown_pc,
                   mutations_loaded, tmp_mutation_files, mutation_file_entries, dest_data_parts,
                   dest_increment, lockers, merges_with_ttl_counter, startup, scheduler, alter,
                   committing_blocks_cv, cleared, granted_roles, max_level>>

\* a notified thread takes the mutex again and goes back to the predicate
WaiterWake ==
    /\ waiter.pc = "notified"
    /\ MutationWaitMutexIsFree
    /\ mutation_wait_mutex' = "waiter"
    /\ waiter' = [waiter EXCEPT !.pc = "locked"]
    /\ UNCHANGED <<increment, committing_blocks, alloc_log, data_parts,
                   currently_merging_mutating_parts, tasks, merges_blocker, partition_blockers,
                   operations_lock, current_mutations_by_version, mutation_counters,
                   mutation_files, failed_parts, running_txns, kill, ins, mut, upd, ddl, opt,
                   sync_mutex, in_progress_columns, shutdown_called, shutdown_pc,
                   mutations_loaded, tmp_mutation_files, mutation_file_entries, dest_data_parts,
                   dest_increment, lockers, merges_with_ttl_counter, startup, scheduler, alter,
                   committing_blocks_cv, cleared, granted_roles, max_level>>

\* waitForMutation returns, or throws what checkMutationStatus reports
WaiterReturn ==
    /\ waiter.pc = "returned"
    /\ waiter' = IdleWaiter
    /\ UNCHANGED <<increment, committing_blocks, alloc_log, data_parts,
                   currently_merging_mutating_parts, tasks, merges_blocker, partition_blockers,
                   operations_lock, current_mutations_by_version, mutation_counters,
                   mutation_files, failed_parts, running_txns, kill, ins, mut, upd, ddl, opt,
                   sync_mutex, in_progress_columns, shutdown_called, shutdown_pc,
                   mutation_wait_mutex, mutations_loaded, tmp_mutation_files,
                   mutation_file_entries, dest_data_parts, dest_increment, lockers,
                   merges_with_ttl_counter, startup, scheduler, alter, committing_blocks_cv,
                   cleared, granted_roles, max_level>>

\* scheduleDataProcessingJob selected neither a merge nor a mutation and the map is
\* not empty: the waiters are notified
ScheduleNotify ==
    /\ ~shutdown_called
    /\ ~IsCancelled
    /\ DOMAIN current_mutations_by_version # {}
    /\ ~\E part \in data_parts : CanBeMutated(part) /\ CanTag({part.info})
    /\ MutationWaitMutexIsFree
    /\ waiter' = NotifyAll
    /\ UNCHANGED <<increment, committing_blocks, alloc_log, data_parts,
                   currently_merging_mutating_parts, tasks, merges_blocker, partition_blockers,
                   operations_lock, current_mutations_by_version, mutation_counters,
                   mutation_files, failed_parts, running_txns, kill, ins, mut, upd, ddl, opt,
                   sync_mutex, in_progress_columns, shutdown_called, shutdown_pc,
                   mutation_wait_mutex, mutations_loaded, tmp_mutation_files,
                   mutation_file_entries, dest_data_parts, dest_increment, lockers,
                   merges_with_ttl_counter, startup, scheduler, alter, committing_blocks_cv,
                   cleared, granted_roles, max_level>>

\* shutdown: shutdown_called.exchange(true)
ShutdownSetFlag ==
    /\ ~shutdown_called
    /\ shutdown_called' = TRUE
    /\ shutdown_pc' = "flagged"
    /\ UNCHANGED <<increment, committing_blocks, alloc_log, data_parts,
                   currently_merging_mutating_parts, tasks, merges_blocker, partition_blockers,
                   operations_lock, current_mutations_by_version, mutation_counters,
                   mutation_files, failed_parts, running_txns, kill, ins, mut, upd, ddl, opt,
                   sync_mutex, in_progress_columns, mutation_wait_mutex, waiter, mutations_loaded,
                   tmp_mutation_files, mutation_file_entries, dest_data_parts, dest_increment,
                   lockers, merges_with_ttl_counter, startup, scheduler, alter,
                   committing_blocks_cv, cleared, granted_roles, max_level>>

\* shutdown: the waiting mutations are unlocked, merges_blocker.cancelForever()
ShutdownNotify ==
    /\ shutdown_pc = "flagged"
    /\ MutationWaitMutexIsFree
    /\ waiter' = NotifyAll
    /\ merges_blocker' = merges_blocker + 1
    /\ shutdown_pc' = "done"
    /\ UNCHANGED <<increment, committing_blocks, alloc_log, data_parts,
                   currently_merging_mutating_parts, tasks, partition_blockers, operations_lock,
                   current_mutations_by_version, mutation_counters, mutation_files, failed_parts,
                   running_txns, kill, ins, mut, upd, ddl, opt, sync_mutex, in_progress_columns,
                   shutdown_called, mutation_wait_mutex, mutations_loaded, tmp_mutation_files,
                   mutation_file_entries, dest_data_parts, dest_increment, lockers,
                   merges_with_ttl_counter, startup, scheduler, alter, committing_blocks_cv,
                   cleared, granted_roles, max_level>>

(***************************************************************************)
(* alter() and mutate(): the alter-lock and the barrier wait.              *)
(***************************************************************************)
\* nobody holds the alter-lock, no ALTER and no mutate() is running; metadata counts
\* the changes of the table metadata
IdleAlter ==
    [lock |-> "free", pc |-> "idle", barrier |-> FALSE, prev_mutation |-> NoBlock,
     mpc |-> "idle", metadata |-> 0]

\* mutate(): tryLockForAlter gives the lock
MutateLock ==
    /\ alter.mpc = "idle"
    /\ alter.lock = "free"
    /\ alter' = [alter EXCEPT !.lock = "mutate", !.mpc = "locked"]
    /\ UNCHANGED <<increment, committing_blocks, alloc_log, data_parts,
                   currently_merging_mutating_parts, tasks, merges_blocker, partition_blockers,
                   operations_lock, current_mutations_by_version, mutation_counters,
                   mutation_files, failed_parts, running_txns, kill, ins, mut, upd, ddl, opt,
                   sync_mutex, in_progress_columns, shutdown_called, shutdown_pc,
                   mutation_wait_mutex, waiter, mutations_loaded, tmp_mutation_files,
                   mutation_file_entries, dest_data_parts, dest_increment, lockers,
                   merges_with_ttl_counter, startup, scheduler, committing_blocks_cv, cleared,
                   granted_roles, max_level>>

\* mutate(): tryLockForAlter gives nothing within lock_acquire_timeout:
\* TIMEOUT_EXCEEDED, startMutation is not called
MutateTimeout ==
    /\ alter.mpc = "idle"
    /\ alter.lock # "free"
    /\ UNCHANGED vars

\* mutate(): startMutation, up to the commit of the entry's file
MutateAllocate ==
    /\ alter.mpc = "locked"
    /\ StartMutationBegins(PrehistoricTID)
    /\ alter' = [alter EXCEPT !.mpc = "allocated"]
    /\ UNCHANGED <<alloc_log, data_parts, currently_merging_mutating_parts, tasks, merges_blocker,
                   partition_blockers, operations_lock, current_mutations_by_version,
                   mutation_counters, failed_parts, running_txns, kill, ins, upd, ddl, opt,
                   sync_mutex, in_progress_columns, shutdown_called, shutdown_pc,
                   mutation_wait_mutex, waiter, mutations_loaded, tmp_mutation_files,
                   mutation_file_entries, dest_data_parts, dest_increment, lockers,
                   merges_with_ttl_counter, startup, scheduler, committing_blocks_cv, cleared,
                   granted_roles, max_level>>

\* mutate(): startMutation puts the entry into the map and returns; the block of the
\* alter-lock is left (mutations_sync = 0)
MutateRegister ==
    /\ alter.mpc = "allocated"
    /\ StartMutationRegisters
    /\ alter' = [alter EXCEPT !.mpc = "idle", !.lock = IF @ = "mutate" THEN "free" ELSE @]
    /\ UNCHANGED <<increment, alloc_log, data_parts, currently_merging_mutating_parts, tasks,
                   merges_blocker, partition_blockers, operations_lock, mutation_files,
                   failed_parts, running_txns, kill, ins, upd, ddl, opt, sync_mutex,
                   in_progress_columns, shutdown_called, shutdown_pc, mutation_wait_mutex, waiter,
                   mutations_loaded, tmp_mutation_files, mutation_file_entries, dest_data_parts,
                   dest_increment, lockers, merges_with_ttl_counter, startup, scheduler,
                   committing_blocks_cv, cleared, granted_roles, max_level>>

\* ALTER with mutation commands: the interpreter takes the alter-lock and calls alter()
AlterBegin(barrier) ==
    /\ alter.pc = "idle"
    /\ alter.lock = "free"
    /\ alter' = [alter EXCEPT !.lock = "alter", !.pc = "begun", !.barrier = barrier,
                              !.prev_mutation = NoBlock]
    /\ UNCHANGED <<increment, committing_blocks, alloc_log, data_parts,
                   currently_merging_mutating_parts, tasks, merges_blocker, partition_blockers,
                   operations_lock, current_mutations_by_version, mutation_counters,
                   mutation_files, failed_parts, running_txns, kill, ins, mut, upd, ddl, opt,
                   sync_mutex, in_progress_columns, shutdown_called, shutdown_pc,
                   mutation_wait_mutex, waiter, mutations_loaded, tmp_mutation_files,
                   mutation_file_entries, dest_data_parts, dest_increment, lockers,
                   merges_with_ttl_counter, startup, scheduler, committing_blocks_cv, cleared,
                   granted_roles, max_level>>

\* the last key of the map
LastMutation ==
    IF current_mutations_by_version = <<>> THEN NoBlock
    ELSE MaxOf(DOMAIN current_mutations_by_version)

\* alter(): with a barrier command the last version of the map is read; without one,
\* or with an empty map, the metadata is changed next
AlterReadPrevMutation ==
    /\ alter.pc = "begun"
    /\ alter' = IF alter.barrier /\ LastMutation # NoBlock
                THEN [alter EXCEPT !.pc = "wait", !.prev_mutation = LastMutation]
                ELSE [alter EXCEPT !.pc = "ready"]
    /\ UNCHANGED <<increment, committing_blocks, alloc_log, data_parts,
                   currently_merging_mutating_parts, tasks, merges_blocker, partition_blockers,
                   operations_lock, current_mutations_by_version, mutation_counters,
                   mutation_files, failed_parts, running_txns, kill, ins, mut, upd, ddl, opt,
                   sync_mutex, in_progress_columns, shutdown_called, shutdown_pc,
                   mutation_wait_mutex, waiter, mutations_loaded, tmp_mutation_files,
                   mutation_file_entries, dest_data_parts, dest_increment, lockers,
                   merges_with_ttl_counter, startup, scheduler, committing_blocks_cv, cleared,
                   granted_roles, max_level>>

\* alter(): waitForMutation(prev_mutation, true)
AlterWaitForMutation ==
    /\ alter.pc = "wait"
    /\ WaitForMutation(alter.prev_mutation)

\* checkMutationStatus throws UNFINISHED: the mutation was killed, or it has failed
CheckMutationStatusThrows(version) ==
    \/ ~GetIncompleteMutationsStatus(version).found
    \/ /\ ~GetIncompleteMutationsStatus(version).is_done
       /\ current_mutations_by_version[version].latest_fail_reason # ""

\* alter(): waitForMutation is over, with an exception that ends the ALTER or without
AlterWaitReturns ==
    /\ alter.pc = "wait"
    /\ \/ waiter.pc = "returned"
       \/ waiter.pc = "idle" /\ alter.prev_mutation \notin DOMAIN current_mutations_by_version
    /\ waiter' = IdleWaiter
    /\ alter' = IF CheckMutationStatusThrows(alter.prev_mutation)
                THEN [alter EXCEPT !.pc = "idle", !.lock = "free"]
                ELSE [alter EXCEPT !.pc = "ready"]
    /\ UNCHANGED <<increment, committing_blocks, alloc_log, data_parts,
                   currently_merging_mutating_parts, tasks, merges_blocker, partition_blockers,
                   operations_lock, current_mutations_by_version, mutation_counters,
                   mutation_files, failed_parts, running_txns, kill, ins, mut, upd, ddl, opt,
                   sync_mutex, in_progress_columns, shutdown_called, shutdown_pc,
                   mutation_wait_mutex, mutations_loaded, tmp_mutation_files,
                   mutation_file_entries, dest_data_parts, dest_increment, lockers,
                   merges_with_ttl_counter, startup, scheduler, committing_blocks_cv, cleared,
                   granted_roles, max_level>>

\* alter(): changeSettings, setProperties, alterTable
AlterChangeMetadata ==
    /\ alter.pc = "ready"
    /\ alter' = [alter EXCEPT !.pc = "changed", !.metadata = @ + 1]
    /\ UNCHANGED <<increment, committing_blocks, alloc_log, data_parts,
                   currently_merging_mutating_parts, tasks, merges_blocker, partition_blockers,
                   operations_lock, current_mutations_by_version, mutation_counters,
                   mutation_files, failed_parts, running_txns, kill, ins, mut, upd, ddl, opt,
                   sync_mutex, in_progress_columns, shutdown_called, shutdown_pc,
                   mutation_wait_mutex, waiter, mutations_loaded, tmp_mutation_files,
                   mutation_file_entries, dest_data_parts, dest_increment, lockers,
                   merges_with_ttl_counter, startup, scheduler, committing_blocks_cv, cleared,
                   granted_roles, max_level>>

\* alter(): startMutation, up to the commit of the entry's file
AlterAllocate ==
    /\ alter.pc = "changed"
    /\ StartMutationBegins(PrehistoricTID)
    /\ alter' = [alter EXCEPT !.pc = "allocated"]
    /\ UNCHANGED <<alloc_log, data_parts, currently_merging_mutating_parts, tasks, merges_blocker,
                   partition_blockers, operations_lock, current_mutations_by_version,
                   mutation_counters, failed_parts, running_txns, kill, ins, upd, ddl, opt,
                   sync_mutex, in_progress_columns, shutdown_called, shutdown_pc,
                   mutation_wait_mutex, waiter, mutations_loaded, tmp_mutation_files,
                   mutation_file_entries, dest_data_parts, dest_increment, lockers,
                   merges_with_ttl_counter, startup, scheduler, committing_blocks_cv, cleared,
                   granted_roles, max_level>>

\* alter(): startMutation puts the entry into the map; alter() returns (alter_sync = 0)
\* and the interpreter releases the alter-lock
AlterRegister ==
    /\ alter.pc = "allocated"
    /\ StartMutationRegisters
    /\ alter' = [alter EXCEPT !.pc = "idle", !.lock = "free"]
    /\ UNCHANGED <<increment, alloc_log, data_parts, currently_merging_mutating_parts, tasks,
                   merges_blocker, partition_blockers, operations_lock, mutation_files,
                   failed_parts, running_txns, kill, ins, upd, ddl, opt, sync_mutex,
                   in_progress_columns, shutdown_called, shutdown_pc, mutation_wait_mutex, waiter,
                   mutations_loaded, tmp_mutation_files, mutation_file_entries, dest_data_parts,
                   dest_increment, lockers, merges_with_ttl_counter, startup, scheduler,
                   committing_blocks_cv, cleared, granted_roles, max_level>>
(***************************************************************************)
(* loadMutations.                                                          *)
(***************************************************************************)
\* what a mutation_<V>.txt file can hold: the tid of the entry and its csn, which is
\* written in the file, known to the transaction log only, or unknown
FileEntries ==
    [tid : {PrehistoricTID}, csn : {"written"}]
        \cup [tid : Transactions, csn : {"written", "in_log", "unknown"}]

\* every entry counts as committed
AlwaysCommittedOnLoad(entry) == TRUE

\* loadMutations keeps the entry: it is prehistoric, has a csn, or
\* TransactionLog::getCSN finds one
CommittedOnLoad(entry) == entry.tid = PrehistoricTID \/ entry.csn # "unknown"

LoadedMutationVersions ==
    {v \in mutation_files : CommittedOnLoad(mutation_file_entries[v])}

\* loadMutations without its last statement
LoadMutationsKeepsIncrement ==
    /\ ~mutations_loaded
    /\ mutations_loaded' = TRUE
    /\ current_mutations_by_version' =
            [v \in LoadedMutationVersions |-> MutationEntry(mutation_file_entries[v].tid)]
    /\ mutation_counters' = Cardinality(LoadedMutationVersions)
    /\ mutation_files' = LoadedMutationVersions
    /\ tmp_mutation_files' = {}
    /\ UNCHANGED <<increment, committing_blocks, alloc_log, data_parts,
                   currently_merging_mutating_parts, tasks, merges_blocker, partition_blockers,
                   operations_lock, failed_parts, running_txns, kill, ins, mut, upd, ddl, opt,
                   sync_mutex, in_progress_columns, shutdown_called, shutdown_pc,
                   mutation_wait_mutex, waiter, mutation_file_entries, dest_data_parts,
                   dest_increment, lockers, merges_with_ttl_counter, startup, scheduler, alter,
                   committing_blocks_cv, cleared, granted_roles, max_level>>

\* loadMutations, under the background mutex: the committed entries are put into the
\* map and counted, the files of the others and the tmp_mutation_* files are
\* removed, the increment is raised to the last version
LoadMutations ==
    /\ ~mutations_loaded
    /\ mutations_loaded' = TRUE
    /\ current_mutations_by_version' =
            [v \in LoadedMutationVersions |-> MutationEntry(mutation_file_entries[v].tid)]
    /\ mutation_counters' = Cardinality(LoadedMutationVersions)
    /\ mutation_files' = LoadedMutationVersions
    /\ tmp_mutation_files' = {}
    /\ increment' = IF LoadedMutationVersions = {} THEN increment
                    ELSE Max(increment, MaxOf(LoadedMutationVersions))
    /\ UNCHANGED <<committing_blocks, alloc_log, data_parts, currently_merging_mutating_parts,
                   tasks, merges_blocker, partition_blockers, operations_lock, failed_parts,
                   running_txns, kill, ins, mut, upd, ddl, opt, sync_mutex, in_progress_columns,
                   shutdown_called, shutdown_pc, mutation_wait_mutex, waiter,
                   mutation_file_entries, dest_data_parts, dest_increment, lockers,
                   merges_with_ttl_counter, startup, scheduler, alter, committing_blocks_cv,
                   cleared, granted_roles, max_level>>

(***************************************************************************)
(* TRUNCATE.                                                               *)
(***************************************************************************)
\* the caller of truncate holds the exclusive table lock: no query and no
\* background task, which hold it shared, is in progress
TableIsLockedExclusively(d) ==
    /\ \A t \in Tasks : tasks[t].pc = "free"
    /\ \A i \in Inserters : ins[i].pc = "idle"
    /\ \A u \in Updaters : upd[u].pc = "idle"
    /\ \A c \in DdlThreads : ddl[c].pc = "idle"
    /\ mut.pc = "idle"
    /\ opt.pc = "idle"

\* the parts truncate takes: getVisibleDataPartsVector of the query
TruncatedInfos(tid) ==
    {p.info : p \in GetVisibleDataPartsVector(
                        IF tid = PrehistoricTID THEN NoTransaction ELSE tid)}

\* truncate: in a transaction the visible parts are removed from the working set,
\* otherwise every part is covered by an empty part
TruncatedParts(tid) ==
    IF tid = PrehistoricTID
    THEN RenameAndCommitEmptyParts(data_parts,
            InitCoverageWithNewEmptyParts(TruncatedInfos(tid)))
    ELSE Outdate(data_parts, TruncatedInfos(tid))

\* truncate: the merges are stopped, the parts are swapped, then
\* clearOldMutations(true) and clearEmptyParts()
Truncate(d, tid) ==
    /\ ddl[d].pc = "idle"
    /\ TableIsLockedExclusively(d)
    /\ tid = PrehistoricTID =>
        /\ \A info \in TruncatedInfos(tid) : info.level < MaxLevel
        /\ CanCommitEmptyParts(data_parts, InitCoverageWithNewEmptyParts(TruncatedInfos(tid)))
    /\ data_parts' = ClearedEmptyParts(TruncatedParts(tid),
                        {p.info : p \in {q \in ActiveParts(TruncatedParts(tid)) : q.empty}})
    /\ mutation_counters' = ClearedOldMutations(TruncatedParts(tid), 0).counters
    /\ current_mutations_by_version' = ClearedOldMutations(TruncatedParts(tid), 0).mutations
    /\ mutation_files' = ClearedOldMutations(TruncatedParts(tid), 0).files
    /\ ddl' = [ddl EXCEPT ![d] = [IdleDdl EXCEPT !.pc = "truncated", !.op = "truncate"]]
    /\ UNCHANGED <<increment, committing_blocks, alloc_log, currently_merging_mutating_parts,
                   tasks, merges_blocker, partition_blockers, operations_lock, failed_parts,
                   running_txns, kill, ins, mut, upd, opt, sync_mutex, in_progress_columns,
                   shutdown_called, shutdown_pc, mutation_wait_mutex, waiter, mutations_loaded,
                   tmp_mutation_files, mutation_file_entries, dest_data_parts, dest_increment,
                   lockers, merges_with_ttl_counter, startup, scheduler, alter,
                   committing_blocks_cv, cleared, granted_roles, max_level>>

\* truncate returns
TruncateReturn(d) ==
    /\ ddl[d].pc = "truncated"
    /\ ddl' = [ddl EXCEPT ![d] = IdleDdl]
    /\ UNCHANGED <<increment, committing_blocks, alloc_log, data_parts,
                   currently_merging_mutating_parts, tasks, merges_blocker, partition_blockers,
                   operations_lock, current_mutations_by_version, mutation_counters,
                   mutation_files, failed_parts, running_txns, kill, ins, mut, upd, opt,
                   sync_mutex, in_progress_columns, shutdown_called, shutdown_pc,
                   mutation_wait_mutex, waiter, mutations_loaded, tmp_mutation_files,
                   mutation_file_entries, dest_data_parts, dest_increment, lockers,
                   merges_with_ttl_counter, startup, scheduler, alter, committing_blocks_cv,
                   cleared, granted_roles, max_level>>

(***************************************************************************)
(* The order in which the functions take their locks.  A function is the   *)
(* sequence of its lock and unlock steps; a thread walks one of them.      *)
(***************************************************************************)
Lock(name) == <<"lock", name>>
Unlock(name) == <<"unlock", name>>

\* waitForMutation: mutation_wait_event.wait(lock, check) runs check with
\* mutation_wait_mutex held; check calls getIncompleteMutationsStatus, which takes
\* the background mutex and reads the visible parts under the parts lock; the status
\* is read once more after the wait
WaitForMutationLocks ==
    <<Lock("mutation_wait_mutex"),
      Lock("currently_processing_in_background_mutex"), Lock("parts"), Unlock("parts"),
      Unlock("currently_processing_in_background_mutex"),
      Unlock("mutation_wait_mutex"),
      Lock("currently_processing_in_background_mutex"), Lock("parts"), Unlock("parts"),
      Unlock("currently_processing_in_background_mutex")>>

\* the notification made inside the scope of the background mutex
KillMutationNotifyingInside ==
    <<Lock("currently_processing_in_background_mutex"),
      Lock("mutation_wait_mutex"), Unlock("mutation_wait_mutex"),
      Unlock("currently_processing_in_background_mutex")>>

\* killMutation: the entry is erased under the background mutex; the notification is
\* made after that scope
KillMutationLocks ==
    <<Lock("currently_processing_in_background_mutex"),
      Unlock("currently_processing_in_background_mutex"),
      Lock("mutation_wait_mutex"), Unlock("mutation_wait_mutex")>>

\* scheduleDataProcessingJob when nothing is selected: the table lock is held for the
\* whole call, the selection runs under the background mutex and reads the parts,
\* and the waiters are notified after the scope
ScheduleDataProcessingJobLocks ==
    <<Lock("table"),
      Lock("currently_processing_in_background_mutex"), Lock("parts"), Unlock("parts"),
      Unlock("currently_processing_in_background_mutex"),
      Lock("mutation_wait_mutex"), Unlock("mutation_wait_mutex"),
      Unlock("table")>>

\* shutdown
ShutdownLocks == <<Lock("mutation_wait_mutex"), Unlock("mutation_wait_mutex")>>

\* startMutation: allocateBlockNumber, the map under the background mutex, and the
\* block holder destroyed on return
StartMutationLocks ==
    <<Lock("committing_blocks_mutex"), Unlock("committing_blocks_mutex"),
      Lock("currently_processing_in_background_mutex"),
      Unlock("currently_processing_in_background_mutex"),
      Lock("committing_blocks_mutex"), Unlock("committing_blocks_mutex")>>

\* outdatePart without force
OutdatePartLocks ==
    <<Lock("currently_processing_in_background_mutex"), Lock("parts"), Unlock("parts"),
      Unlock("currently_processing_in_background_mutex")>>

\* dropPartition: stopMergesAndWait, then the operations lock, under which the parts
\* are read and the empty parts committed
DropPartitionLocks ==
    <<Lock("currently_processing_in_background_mutex"),
      Unlock("currently_processing_in_background_mutex"),
      Lock("operations"), Lock("parts"), Unlock("parts"),
      Lock("parts"), Unlock("parts"), Unlock("operations")>>

LockPathNames ==
    {"waitForMutation", "killMutation", "scheduleDataProcessingJob", "shutdown",
     "startMutation", "outdatePart", "dropPartition"}

LockPath(name) ==
    CASE name = "waitForMutation" -> WaitForMutationLocks
      [] name = "killMutation" -> KillMutationLocks
      [] name = "scheduleDataProcessingJob" -> ScheduleDataProcessingJobLocks
      [] name = "shutdown" -> ShutdownLocks
      [] name = "startMutation" -> StartMutationLocks
      [] name = "outdatePart" -> OutdatePartLocks
      [] name = "dropPartition" -> DropPartitionLocks

IdleLocker == [path |-> "none", pos |-> 0, held |-> <<>>]

\* the locks a thread holds, in the order it took them
HeldBy(th) == {lockers[th].held[i] : i \in 1..Len(lockers[th].held)}

\* lockForShare is shared; every other lock is a mutex
LockIsFree(name) == name = "table" \/ \A th \in LockThreads : name \notin HeldBy(th)

\* the held locks without the last hold of name
RECURSIVE Released(_, _)
Released(held, name) ==
    IF held = <<>> THEN <<>>
    ELSE IF held[Len(held)] = name THEN SubSeq(held, 1, Len(held) - 1)
    ELSE Append(Released(SubSeq(held, 1, Len(held) - 1), name), held[Len(held)])

\* a thread enters one of the functions
EnterFunction(th, name) ==
    /\ lockers[th].path = "none"
    /\ lockers' = [lockers EXCEPT ![th] = [path |-> name, pos |-> 1, held |-> <<>>]]
    /\ UNCHANGED <<increment, committing_blocks, alloc_log, data_parts,
                   currently_merging_mutating_parts, tasks, merges_blocker, partition_blockers,
                   operations_lock, current_mutations_by_version, mutation_counters,
                   mutation_files, failed_parts, running_txns, kill, ins, mut, upd, ddl, opt,
                   sync_mutex, in_progress_columns, shutdown_called, shutdown_pc,
                   mutation_wait_mutex, waiter, mutations_loaded, tmp_mutation_files,
                   mutation_file_entries, dest_data_parts, dest_increment,
                   merges_with_ttl_counter, startup, scheduler, alter, committing_blocks_cv,
                   cleared, granted_roles, max_level>>

\* the next step of the function is a lock: the thread takes it when it is free
TakeLock(th) ==
    /\ lockers[th].path # "none"
    /\ lockers[th].pos <= Len(LockPath(lockers[th].path))
    /\ LET step == LockPath(lockers[th].path)[lockers[th].pos]
       IN /\ step[1] = "lock"
          /\ LockIsFree(step[2])
          /\ lockers' = [lockers EXCEPT ![th].pos = @ + 1,
                                        ![th].held = Append(@, step[2])]
    /\ UNCHANGED <<increment, committing_blocks, alloc_log, data_parts,
                   currently_merging_mutating_parts, tasks, merges_blocker, partition_blockers,
                   operations_lock, current_mutations_by_version, mutation_counters,
                   mutation_files, failed_parts, running_txns, kill, ins, mut, upd, ddl, opt,
                   sync_mutex, in_progress_columns, shutdown_called, shutdown_pc,
                   mutation_wait_mutex, waiter, mutations_loaded, tmp_mutation_files,
                   mutation_file_entries, dest_data_parts, dest_increment,
                   merges_with_ttl_counter, startup, scheduler, alter, committing_blocks_cv,
                   cleared, granted_roles, max_level>>

\* the next step of the function is the end of a scope
ReleaseLock(th) ==
    /\ lockers[th].path # "none"
    /\ lockers[th].pos <= Len(LockPath(lockers[th].path))
    /\ LET step == LockPath(lockers[th].path)[lockers[th].pos]
       IN /\ step[1] = "unlock"
          /\ lockers' = [lockers EXCEPT ![th].pos = @ + 1,
                                        ![th].held = Released(@, step[2])]
    /\ UNCHANGED <<increment, committing_blocks, alloc_log, data_parts,
                   currently_merging_mutating_parts, tasks, merges_blocker, partition_blockers,
                   operations_lock, current_mutations_by_version, mutation_counters,
                   mutation_files, failed_parts, running_txns, kill, ins, mut, upd, ddl, opt,
                   sync_mutex, in_progress_columns, shutdown_called, shutdown_pc,
                   mutation_wait_mutex, waiter, mutations_loaded, tmp_mutation_files,
                   mutation_file_entries, dest_data_parts, dest_increment,
                   merges_with_ttl_counter, startup, scheduler, alter, committing_blocks_cv,
                   cleared, granted_roles, max_level>>

\* the function returns
LeaveFunction(th) ==
    /\ lockers[th].path # "none"
    /\ lockers[th].pos > Len(LockPath(lockers[th].path))
    /\ lockers' = [lockers EXCEPT ![th] = IdleLocker]
    /\ UNCHANGED <<increment, committing_blocks, alloc_log, data_parts,
                   currently_merging_mutating_parts, tasks, merges_blocker, partition_blockers,
                   operations_lock, current_mutations_by_version, mutation_counters,
                   mutation_files, failed_parts, running_txns, kill, ins, mut, upd, ddl, opt,
                   sync_mutex, in_progress_columns, shutdown_called, shutdown_pc,
                   mutation_wait_mutex, waiter, mutations_loaded, tmp_mutation_files,
                   mutation_file_entries, dest_data_parts, dest_increment,
                   merges_with_ttl_counter, startup, scheduler, alter, committing_blocks_cv,
                   cleared, granted_roles, max_level>>


(***************************************************************************)
(* MOVE PARTITION TO TABLE between two tables, in either direction.        *)
(***************************************************************************)
MoveDirections == {"A->B", "B->A"}

\* movePartitionToTable of table src with destination dest: both tables are locked
\* for share, the merges of the source are stopped, then the parts of the source and
\* the parts of the destination are locked; under both, fillNewPartName allocates
\* the blocks of the destination
MovePartitionToTableLocks(src, dest) ==
    <<Lock(src \o ".table"), Lock(dest \o ".table"),
      Lock(src \o ".currently_processing_in_background_mutex"),
      Unlock(src \o ".currently_processing_in_background_mutex"),
      Lock(src \o ".parts"), Lock(dest \o ".parts"),
      Lock(dest \o ".committing_blocks_mutex"), Unlock(dest \o ".committing_blocks_mutex"),
      Unlock(dest \o ".parts"), Unlock(src \o ".parts"),
      Unlock(dest \o ".table"), Unlock(src \o ".table")>>

MovePath(direction) ==
    IF direction = "A->B" THEN MovePartitionToTableLocks("A", "B")
    ELSE MovePartitionToTableLocks("B", "A")

\* the step a moving thread is at; none when it is not moving or has done them all
NoStep == <<"none", "none">>

MoveStep(th) ==
    IF lockers[th].path \in MoveDirections /\ lockers[th].pos <= Len(MovePath(lockers[th].path))
    THEN MovePath(lockers[th].path)[lockers[th].pos]
    ELSE NoStep

\* lockForShare is shared; the parts lock and the other mutexes are exclusive
MoveLockIsFree(name) ==
    name \in {"A.table", "B.table"} \/ \A th \in LockThreads : name \notin HeldBy(th)

\* a MOVE PARTITION statement begins
MoveBegins(th, direction) ==
    /\ lockers[th].path = "none"
    /\ lockers' = [lockers EXCEPT ![th] = [path |-> direction, pos |-> 1, held |-> <<>>]]
    /\ UNCHANGED <<increment, committing_blocks, alloc_log, data_parts,
                   currently_merging_mutating_parts, tasks, merges_blocker, partition_blockers,
                   operations_lock, current_mutations_by_version, mutation_counters,
                   mutation_files, failed_parts, running_txns, kill, ins, mut, upd, ddl, opt,
                   sync_mutex, in_progress_columns, shutdown_called, shutdown_pc,
                   mutation_wait_mutex, waiter, mutations_loaded, tmp_mutation_files,
                   mutation_file_entries, dest_data_parts, dest_increment,
                   merges_with_ttl_counter, startup, scheduler, alter, committing_blocks_cv,
                   cleared, granted_roles, max_level>>

\* the next step is a lock: the thread takes it when it is free
MoveTakesLock(th) ==
    /\ MoveStep(th)[1] = "lock"
    /\ MoveLockIsFree(MoveStep(th)[2])
    /\ lockers' = [lockers EXCEPT ![th].pos = @ + 1,
                                  ![th].held = Append(@, MoveStep(th)[2])]
    /\ UNCHANGED <<increment, committing_blocks, alloc_log, data_parts,
                   currently_merging_mutating_parts, tasks, merges_blocker, partition_blockers,
                   operations_lock, current_mutations_by_version, mutation_counters,
                   mutation_files, failed_parts, running_txns, kill, ins, mut, upd, ddl, opt,
                   sync_mutex, in_progress_columns, shutdown_called, shutdown_pc,
                   mutation_wait_mutex, waiter, mutations_loaded, tmp_mutation_files,
                   mutation_file_entries, dest_data_parts, dest_increment,
                   merges_with_ttl_counter, startup, scheduler, alter, committing_blocks_cv,
                   cleared, granted_roles, max_level>>

\* the next step is the end of a scope
MoveReleasesLock(th) ==
    /\ MoveStep(th)[1] = "unlock"
    /\ lockers' = [lockers EXCEPT ![th].pos = @ + 1,
                                  ![th].held = Released(@, MoveStep(th)[2])]
    /\ UNCHANGED <<increment, committing_blocks, alloc_log, data_parts,
                   currently_merging_mutating_parts, tasks, merges_blocker, partition_blockers,
                   operations_lock, current_mutations_by_version, mutation_counters,
                   mutation_files, failed_parts, running_txns, kill, ins, mut, upd, ddl, opt,
                   sync_mutex, in_progress_columns, shutdown_called, shutdown_pc,
                   mutation_wait_mutex, waiter, mutations_loaded, tmp_mutation_files,
                   mutation_file_entries, dest_data_parts, dest_increment,
                   merges_with_ttl_counter, startup, scheduler, alter, committing_blocks_cv,
                   cleared, granted_roles, max_level>>

\* movePartitionToTable returns
MoveReturns(th) ==
    /\ lockers[th].path \in MoveDirections
    /\ lockers[th].pos > Len(MovePath(lockers[th].path))
    /\ lockers' = [lockers EXCEPT ![th] = IdleLocker]
    /\ UNCHANGED <<increment, committing_blocks, alloc_log, data_parts,
                   currently_merging_mutating_parts, tasks, merges_blocker, partition_blockers,
                   operations_lock, current_mutations_by_version, mutation_counters,
                   mutation_files, failed_parts, running_txns, kill, ins, mut, upd, ddl, opt,
                   sync_mutex, in_progress_columns, shutdown_called, shutdown_pc,
                   mutation_wait_mutex, waiter, mutations_loaded, tmp_mutation_files,
                   mutation_file_entries, dest_data_parts, dest_increment,
                   merges_with_ttl_counter, startup, scheduler, alter, committing_blocks_cv,
                   cleared, granted_roles, max_level>>
(***************************************************************************)
(* startup and shutdown: the background assignees.                         *)
(***************************************************************************)
MaxShutdownCalls == 2

\* the table after its constructor: nothing is started
Constructed ==
    [pc |-> "constructed", is_static |-> FALSE, operations_assignee |-> FALSE,
     moves_assignee |-> FALSE, loading_task |-> FALSE, shutdown_caller |-> "none",
     shutdown_calls |-> 0]

\* what runs in the background for the table
BackgroundRunning ==
    \/ startup.operations_assignee
    \/ startup.moves_assignee
    \/ startup.loading_task
    \/ \E t \in Tasks : tasks[t].pc # "free"

\* startup up to the try block: the cleanups, and the return of a static storage
StartupClear(is_static) ==
    /\ startup.pc = "constructed"
    /\ ~shutdown_called
    /\ data_parts' = ClearedEmptyParts(data_parts, {p.info : p \in {q \in ActiveParts(data_parts) : q.empty}})
    /\ startup' = [startup EXCEPT !.is_static = is_static,
                                  !.pc = IF is_static THEN "returned" ELSE "try"]
    /\ UNCHANGED <<increment, committing_blocks, alloc_log, currently_merging_mutating_parts,
                   tasks, merges_blocker, partition_blockers, operations_lock,
                   current_mutations_by_version, mutation_counters, mutation_files, failed_parts,
                   running_txns, kill, ins, mut, upd, ddl, opt, sync_mutex, in_progress_columns,
                   shutdown_called, shutdown_pc, mutation_wait_mutex, waiter, mutations_loaded,
                   tmp_mutation_files, mutation_file_entries, dest_data_parts, dest_increment,
                   lockers, merges_with_ttl_counter, scheduler, alter, committing_blocks_cv,
                   cleared, granted_roles, max_level>>

\* background_operations_assignee.start()
StartupStartOperations ==
    /\ startup.pc = "try"
    /\ startup' = [startup EXCEPT !.operations_assignee = TRUE, !.pc = "started_operations"]
    /\ UNCHANGED <<increment, committing_blocks, alloc_log, data_parts,
                   currently_merging_mutating_parts, tasks, merges_blocker, partition_blockers,
                   operations_lock, current_mutations_by_version, mutation_counters,
                   mutation_files, failed_parts, running_txns, kill, ins, mut, upd, ddl, opt,
                   sync_mutex, in_progress_columns, shutdown_called, shutdown_pc,
                   mutation_wait_mutex, waiter, mutations_loaded, tmp_mutation_files,
                   mutation_file_entries, dest_data_parts, dest_increment, lockers,
                   merges_with_ttl_counter, scheduler, alter, committing_blocks_cv, cleared,
                   granted_roles, max_level>>

\* startBackgroundMovesIfNeeded
StartupStartMoves(areBackgroundMovesNeeded) ==
    /\ startup.pc = "started_operations"
    /\ startup' = [startup EXCEPT !.moves_assignee = areBackgroundMovesNeeded,
                                  !.pc = "started_moves"]
    /\ UNCHANGED <<increment, committing_blocks, alloc_log, data_parts,
                   currently_merging_mutating_parts, tasks, merges_blocker, partition_blockers,
                   operations_lock, current_mutations_by_version, mutation_counters,
                   mutation_files, failed_parts, running_txns, kill, ins, mut, upd, ddl, opt,
                   sync_mutex, in_progress_columns, shutdown_called, shutdown_pc,
                   mutation_wait_mutex, waiter, mutations_loaded, tmp_mutation_files,
                   mutation_file_entries, dest_data_parts, dest_increment, lockers,
                   merges_with_ttl_counter, scheduler, alter, committing_blocks_cv, cleared,
                   granted_roles, max_level>>

\* startOutdatedAndUnexpectedDataPartsLoadingTask, and the return
StartupStartLoading ==
    /\ startup.pc = "started_moves"
    /\ startup' = [startup EXCEPT !.loading_task = TRUE, !.pc = "returned"]
    /\ UNCHANGED <<increment, committing_blocks, alloc_log, data_parts,
                   currently_merging_mutating_parts, tasks, merges_blocker, partition_blockers,
                   operations_lock, current_mutations_by_version, mutation_counters,
                   mutation_files, failed_parts, running_txns, kill, ins, mut, upd, ddl, opt,
                   sync_mutex, in_progress_columns, shutdown_called, shutdown_pc,
                   mutation_wait_mutex, waiter, mutations_loaded, tmp_mutation_files,
                   mutation_file_entries, dest_data_parts, dest_increment, lockers,
                   merges_with_ttl_counter, scheduler, alter, committing_blocks_cv, cleared,
                   granted_roles, max_level>>

\* what the call that throws has started before it throws: everything or nothing
StartedBeforeThrow(started) ==
    CASE startup.pc = "try" -> [startup EXCEPT !.operations_assignee = started]
      [] startup.pc = "started_operations" -> [startup EXCEPT !.moves_assignee = started]
      [] startup.pc = "started_moves" -> [startup EXCEPT !.loading_task = started]

\* one of the three calls of the try block throws, the handler calls shutdown(false):
\* shutdown_called.exchange(true)
StartupThrowsNoShutdown(started) ==
    /\ startup.pc \in {"try", "started_operations", "started_moves"}
    /\ startup' = [StartedBeforeThrow(started) EXCEPT !.pc = "rethrown"]
    /\ UNCHANGED <<increment, committing_blocks, alloc_log, data_parts,
                   currently_merging_mutating_parts, tasks, merges_blocker, partition_blockers,
                   operations_lock, current_mutations_by_version, mutation_counters,
                   mutation_files, failed_parts, running_txns, kill, ins, mut, upd, ddl, opt,
                   sync_mutex, in_progress_columns, shutdown_called, shutdown_pc,
                   mutation_wait_mutex, waiter, mutations_loaded, tmp_mutation_files,
                   mutation_file_entries, dest_data_parts, dest_increment, lockers,
                   merges_with_ttl_counter, scheduler, alter, committing_blocks_cv, cleared,
                   granted_roles, max_level>>

StartupThrows(started) ==
    /\ startup.pc \in {"try", "started_operations", "started_moves"}
    /\ startup' = [StartedBeforeThrow(started) EXCEPT
                        !.pc = "catch",
                        !.shutdown_caller = IF shutdown_called THEN "none" ELSE "startup",
                        !.shutdown_calls = @ + 1]
    /\ shutdown_called' = TRUE
    /\ shutdown_pc' = IF shutdown_called THEN shutdown_pc ELSE "flagged"
    /\ UNCHANGED <<increment, committing_blocks, alloc_log, data_parts,
                   currently_merging_mutating_parts, tasks, merges_blocker, partition_blockers,
                   operations_lock, current_mutations_by_version, mutation_counters,
                   mutation_files, failed_parts, running_txns, kill, ins, mut, upd, ddl, opt,
                   sync_mutex, in_progress_columns, mutation_wait_mutex, waiter, mutations_loaded,
                   tmp_mutation_files, mutation_file_entries, dest_data_parts, dest_increment,
                   lockers, merges_with_ttl_counter, scheduler, alter, committing_blocks_cv,
                   cleared, granted_roles, max_level>>

\* the owner of the table calls shutdown (flushAndShutdown, the destructor):
\* shutdown_called.exchange(true), and the return of a second call
Shutdown ==
    /\ startup.pc \in {"constructed", "returned", "rethrown"}
    /\ startup.shutdown_caller = "none"
    /\ startup.shutdown_calls < MaxShutdownCalls
    /\ startup' = [startup EXCEPT
                        !.shutdown_caller = IF shutdown_called THEN "none" ELSE "owner",
                        !.shutdown_calls = @ + 1]
    /\ shutdown_called' = TRUE
    /\ shutdown_pc' = IF shutdown_called THEN shutdown_pc ELSE "flagged"
    /\ UNCHANGED <<increment, committing_blocks, alloc_log, data_parts,
                   currently_merging_mutating_parts, tasks, merges_blocker, partition_blockers,
                   operations_lock, current_mutations_by_version, mutation_counters,
                   mutation_files, failed_parts, running_txns, kill, ins, mut, upd, ddl, opt,
                   sync_mutex, in_progress_columns, mutation_wait_mutex, waiter, mutations_loaded,
                   tmp_mutation_files, mutation_file_entries, dest_data_parts, dest_increment,
                   lockers, merges_with_ttl_counter, scheduler, alter, committing_blocks_cv,
                   cleared, granted_roles, max_level>>

\* shutdown: the loading task is stopped, the assignees finish; finish() waits for the
\* tasks of the table to leave the executors
ShutdownFinish ==
    /\ shutdown_pc = "done"
    /\ \A t \in Tasks : tasks[t].pc = "free"
    /\ shutdown_pc' = "finished"
    /\ startup' = [startup EXCEPT
                        !.operations_assignee = FALSE, !.moves_assignee = FALSE,
                        !.loading_task = FALSE, !.shutdown_caller = "none",
                        !.pc = IF startup.shutdown_caller = "startup" THEN "rethrown" ELSE @]
    /\ UNCHANGED <<increment, committing_blocks, alloc_log, data_parts,
                   currently_merging_mutating_parts, tasks, merges_blocker, partition_blockers,
                   operations_lock, current_mutations_by_version, mutation_counters,
                   mutation_files, failed_parts, running_txns, kill, ins, mut, upd, ddl, opt,
                   sync_mutex, in_progress_columns, shutdown_called, mutation_wait_mutex, waiter,
                   mutations_loaded, tmp_mutation_files, mutation_file_entries, dest_data_parts,
                   dest_increment, lockers, merges_with_ttl_counter, scheduler, alter,
                   committing_blocks_cv, cleared, granted_roles, max_level>>

\* a call of shutdown throws: std::terminate() in the handler of startup, an exception
\* of the owner otherwise
ShutdownThrows ==
    /\ shutdown_pc \in {"flagged", "done"}
    /\ shutdown_pc' = "thrown"
    /\ startup' = [startup EXCEPT
                        !.shutdown_caller = "none",
                        !.pc = IF startup.shutdown_caller = "startup" THEN "terminated" ELSE @]
    /\ UNCHANGED <<increment, committing_blocks, alloc_log, data_parts,
                   currently_merging_mutating_parts, tasks, merges_blocker, partition_blockers,
                   operations_lock, current_mutations_by_version, mutation_counters,
                   mutation_files, failed_parts, running_txns, kill, ins, mut, upd, ddl, opt,
                   sync_mutex, in_progress_columns, shutdown_called, mutation_wait_mutex, waiter,
                   mutations_loaded, tmp_mutation_files, mutation_file_entries, dest_data_parts,
                   dest_increment, lockers, merges_with_ttl_counter, scheduler, alter,
                   committing_blocks_cv, cleared, granted_roles, max_level>>

\* the thread of background_operations_assignee calls scheduleDataProcessingJob
AssigneeSelectMerge(t) ==
    /\ startup.operations_assignee
    /\ startup.pc # "terminated"
    /\ ~shutdown_called
    /\ ScheduleSelectMerge(t)
(***************************************************************************)
(* GrantedRoles: the roles granted to a user or role, some of them with    *)
(* admin option.                                                           *)
(***************************************************************************)
MaxRoles == 4
MaxIds == 2

\* the role ids
Roles == 1..MaxRoles

\* the arguments that are lists or sets of ids, and the id maps
RoleSets == {ids \in SUBSET Roles : Cardinality(ids) <= MaxIds}

IdMaps == UNION {[ids -> Roles] : ids \in RoleSets}

\* the last call made on the object, with the ids it was given
NoCall == [name |-> "none", ids |-> {}]

\* a default-constructed GrantedRoles
NoGrantedRoles == [roles |-> {}, roles_with_admin_option |-> {}, last |-> NoCall]

\* the objects a caller can pass as other or src
ValidGrantedRoles ==
    {g \in [roles : SUBSET Roles, roles_with_admin_option : SUBSET Roles, last : {NoCall}] :
        g.roles_with_admin_option \subseteq g.roles}

Called(g, name, ids) == [g EXCEPT !.last = [name |-> name, ids |-> ids]]

IsGranted(role_) == role_ \in granted_roles.roles

IsGrantedWithAdminOption(role_) == role_ \in granted_roles.roles_with_admin_option

Grant(roles_) ==
    /\ granted_roles' = Called([granted_roles EXCEPT !.roles = @ \cup roles_], "grant", roles_)
    /\ UNCHANGED <<increment, committing_blocks, alloc_log, data_parts,
                   currently_merging_mutating_parts, tasks, merges_blocker, partition_blockers,
                   operations_lock, current_mutations_by_version, mutation_counters,
                   mutation_files, failed_parts, running_txns, kill, ins, mut, upd, ddl, opt,
                   sync_mutex, in_progress_columns, shutdown_called, shutdown_pc,
                   mutation_wait_mutex, waiter, mutations_loaded, tmp_mutation_files,
                   mutation_file_entries, dest_data_parts, dest_increment, lockers,
                   merges_with_ttl_counter, startup, scheduler, alter, committing_blocks_cv,
                   cleared, max_level>>

GrantWithAdminOption(roles_) ==
    /\ granted_roles' = Called([granted_roles EXCEPT !.roles = @ \cup roles_,
                                    !.roles_with_admin_option = @ \cup roles_],
                               "grantWithAdminOption", roles_)
    /\ UNCHANGED <<increment, committing_blocks, alloc_log, data_parts,
                   currently_merging_mutating_parts, tasks, merges_blocker, partition_blockers,
                   operations_lock, current_mutations_by_version, mutation_counters,
                   mutation_files, failed_parts, running_txns, kill, ins, mut, upd, ddl, opt,
                   sync_mutex, in_progress_columns, shutdown_called, shutdown_pc,
                   mutation_wait_mutex, waiter, mutations_loaded, tmp_mutation_files,
                   mutation_file_entries, dest_data_parts, dest_increment, lockers,
                   merges_with_ttl_counter, startup, scheduler, alter, committing_blocks_cv,
                   cleared, max_level>>

\* the role is erased from roles only
RevokedFromRolesOnly(g, role_) == [g EXCEPT !.roles = @ \ {role_}]

\* revoke(role_)
Revoked(g, role_) ==
    [g EXCEPT !.roles = @ \ {role_}, !.roles_with_admin_option = @ \ {role_}]

\* revoke(roles_): revoke(role) for every role of the list
RECURSIVE RevokedAll(_, _)
RevokedAll(g, roles_) ==
    IF roles_ = {} THEN g
    ELSE LET role == CHOOSE r \in roles_ : TRUE
         IN RevokedAll(Revoked(g, role), roles_ \ {role})

Revoke(roles_) ==
    /\ granted_roles' = Called(RevokedAll(granted_roles, roles_), "revoke", roles_)
    /\ UNCHANGED <<increment, committing_blocks, alloc_log, data_parts,
                   currently_merging_mutating_parts, tasks, merges_blocker, partition_blockers,
                   operations_lock, current_mutations_by_version, mutation_counters,
                   mutation_files, failed_parts, running_txns, kill, ins, mut, upd, ddl, opt,
                   sync_mutex, in_progress_columns, shutdown_called, shutdown_pc,
                   mutation_wait_mutex, waiter, mutations_loaded, tmp_mutation_files,
                   mutation_file_entries, dest_data_parts, dest_increment, lockers,
                   merges_with_ttl_counter, startup, scheduler, alter, committing_blocks_cv,
                   cleared, max_level>>

RevokeAdminOption(roles_) ==
    /\ granted_roles' = Called([granted_roles EXCEPT !.roles_with_admin_option = @ \ roles_],
                               "revokeAdminOption", roles_)
    /\ UNCHANGED <<increment, committing_blocks, alloc_log, data_parts,
                   currently_merging_mutating_parts, tasks, merges_blocker, partition_blockers,
                   operations_lock, current_mutations_by_version, mutation_counters,
                   mutation_files, failed_parts, running_txns, kill, ins, mut, upd, ddl, opt,
                   sync_mutex, in_progress_columns, shutdown_called, shutdown_pc,
                   mutation_wait_mutex, waiter, mutations_loaded, tmp_mutation_files,
                   mutation_file_entries, dest_data_parts, dest_increment, lockers,
                   merges_with_ttl_counter, startup, scheduler, alter, committing_blocks_cv,
                   cleared, max_level>>

\* the ids in ascending order, as a flat_set is iterated
RECURSIVE SortedIds(_)
SortedIds(ids) ==
    IF ids = {} THEN <<>>
    ELSE LET least == CHOOSE i \in ids : \A j \in ids : i <= j
         IN <<least>> \o SortedIds(ids \ {least})

\* getElements: the roles without admin option, then those with it; an empty
\* element is left out
GetElements(g) ==
    LET without == SortedIds(g.roles \ g.roles_with_admin_option)
        with == SortedIds(g.roles_with_admin_option)
    IN (IF without = <<>> THEN <<>> ELSE <<[ids |-> without, admin_option |-> FALSE]>>)
       \o (IF with = <<>> THEN <<>> ELSE <<[ids |-> with, admin_option |-> TRUE]>>)

MakeUnion(other) ==
    /\ granted_roles' = Called([granted_roles EXCEPT !.roles = @ \cup other.roles,
                                    !.roles_with_admin_option =
                                        @ \cup other.roles_with_admin_option],
                               "makeUnion", {})
    /\ UNCHANGED <<increment, committing_blocks, alloc_log, data_parts,
                   currently_merging_mutating_parts, tasks, merges_blocker, partition_blockers,
                   operations_lock, current_mutations_by_version, mutation_counters,
                   mutation_files, failed_parts, running_txns, kill, ins, mut, upd, ddl, opt,
                   sync_mutex, in_progress_columns, shutdown_called, shutdown_pc,
                   mutation_wait_mutex, waiter, mutations_loaded, tmp_mutation_files,
                   mutation_file_entries, dest_data_parts, dest_increment, lockers,
                   merges_with_ttl_counter, startup, scheduler, alter, committing_blocks_cv,
                   cleared, max_level>>

MakeIntersection(other) ==
    /\ granted_roles' = Called([granted_roles EXCEPT !.roles = @ \cap other.roles,
                                    !.roles_with_admin_option =
                                        @ \cap other.roles_with_admin_option],
                               "makeIntersection", {})
    /\ UNCHANGED <<increment, committing_blocks, alloc_log, data_parts,
                   currently_merging_mutating_parts, tasks, merges_blocker, partition_blockers,
                   operations_lock, current_mutations_by_version, mutation_counters,
                   mutation_files, failed_parts, running_txns, kill, ins, mut, upd, ddl, opt,
                   sync_mutex, in_progress_columns, shutdown_called, shutdown_pc,
                   mutation_wait_mutex, waiter, mutations_loaded, tmp_mutation_files,
                   mutation_file_entries, dest_data_parts, dest_increment, lockers,
                   merges_with_ttl_counter, startup, scheduler, alter, committing_blocks_cv,
                   cleared, max_level>>

\* the loop of replaceDependencies over one of the two sets: the ids the map knows
\* are erased, their new ids inserted afterwards
ReplacedIds(ids, old_to_new_ids) ==
    (ids \ DOMAIN old_to_new_ids)
        \cup {old_to_new_ids[id] : id \in ids \cap DOMAIN old_to_new_ids}

\* roles_with_admin_option is gone through only if some id of roles was replaced
ReplaceDependencies(old_to_new_ids) ==
    /\ granted_roles' =
        Called([granted_roles EXCEPT
                    !.roles = ReplacedIds(@, old_to_new_ids),
                    !.roles_with_admin_option =
                        IF granted_roles.roles \cap DOMAIN old_to_new_ids = {} THEN @
                        ELSE ReplacedIds(@, old_to_new_ids)],
               "replaceDependencies", {})
    /\ UNCHANGED <<increment, committing_blocks, alloc_log, data_parts,
                   currently_merging_mutating_parts, tasks, merges_blocker, partition_blockers,
                   operations_lock, current_mutations_by_version, mutation_counters,
                   mutation_files, failed_parts, running_txns, kill, ins, mut, upd, ddl, opt,
                   sync_mutex, in_progress_columns, shutdown_called, shutdown_pc,
                   mutation_wait_mutex, waiter, mutations_loaded, tmp_mutation_files,
                   mutation_file_entries, dest_data_parts, dest_increment, lockers,
                   merges_with_ttl_counter, startup, scheduler, alter, committing_blocks_cv,
                   cleared, max_level>>

\* roles_with_admin_option is copied only if some role of src is among ids
CopyDependenciesFrom(src, ids) ==
    /\ granted_roles' =
        Called([granted_roles EXCEPT
                    !.roles = @ \cup (src.roles \cap ids),
                    !.roles_with_admin_option =
                        IF src.roles \cap ids = {} THEN @
                        ELSE @ \cup (src.roles_with_admin_option \cap ids)],
               "copyDependenciesFrom", {})
    /\ UNCHANGED <<increment, committing_blocks, alloc_log, data_parts,
                   currently_merging_mutating_parts, tasks, merges_blocker, partition_blockers,
                   operations_lock, current_mutations_by_version, mutation_counters,
                   mutation_files, failed_parts, running_txns, kill, ins, mut, upd, ddl, opt,
                   sync_mutex, in_progress_columns, shutdown_called, shutdown_pc,
                   mutation_wait_mutex, waiter, mutations_loaded, tmp_mutation_files,
                   mutation_file_entries, dest_data_parts, dest_increment, lockers,
                   merges_with_ttl_counter, startup, scheduler, alter, committing_blocks_cv,
                   cleared, max_level>>

\* roles_with_admin_option is gone through only if some role was erased
RemoveDependencies(ids) ==
    /\ granted_roles' =
        Called([granted_roles EXCEPT
                    !.roles = @ \ ids,
                    !.roles_with_admin_option =
                        IF granted_roles.roles \cap ids = {} THEN @ ELSE @ \ ids],
               "removeDependencies", {})
    /\ UNCHANGED <<increment, committing_blocks, alloc_log, data_parts,
                   currently_merging_mutating_parts, tasks, merges_blocker, partition_blockers,
                   operations_lock, current_mutations_by_version, mutation_counters,
                   mutation_files, failed_parts, running_txns, kill, ins, mut, upd, ddl, opt,
                   sync_mutex, in_progress_columns, shutdown_called, shutdown_pc,
                   mutation_wait_mutex, waiter, mutations_loaded, tmp_mutation_files,
                   mutation_file_entries, dest_data_parts, dest_increment, lockers,
                   merges_with_ttl_counter, startup, scheduler, alter, committing_blocks_cv,
                   cleared, max_level>>

(***************************************************************************)
(* getMaxLevelInBetween.                                                   *)
(***************************************************************************)
\* no call has been made
NoLevelCall == [left |-> NoPart, right |-> NoPart, threw |-> FALSE, level |-> 0]

\* data_parts_by_info: the infos of the parts of every state, in the order of the index
RECURSIVE SortedInfos(_)
SortedInfos(infos) ==
    IF infos = {} THEN <<>>
    ELSE LET least == CHOOSE a \in infos : \A b \in infos \ {a} : PartInfoLess(a, b)
         IN <<least>> \o SortedInfos(infos \ {least})

DataPartsByInfo == SortedInfos({p.info : p \in data_parts})

\* data_parts_by_info.find(info): the position of the info, or one past the last
\* position (end()) when it is not there
Find(index, info) ==
    IF \E i \in 1..Len(index) : index[i] = info
    THEN CHOOSE i \in 1..Len(index) : index[i] = info
    ELSE Len(index) + 1

\* the loop `for (auto it = begin++; it != end; ++it)`: it starts at the left part;
\* reaching end() of the index throws
RECURSIVE LevelLoop(_, _, _, _)
LevelLoop(index, it, end, level) ==
    IF it = end THEN [threw |-> FALSE, level |-> level]
    ELSE IF it = Len(index) + 1 THEN [threw |-> TRUE, level |-> 0]
    ELSE LevelLoop(index, it + 1, end,
                   IF index[it].level > level THEN index[it].level ELSE level)

\* getMaxLevelInBetween(left, right)
GetMaxLevelInBetween(index, left, right) ==
    IF Find(index, left) = Len(index) + 1 THEN [threw |-> TRUE, level |-> 0]
    ELSE IF Find(index, right) = Len(index) + 1 THEN [threw |-> TRUE, level |-> 0]
    ELSE LevelLoop(index, Find(index, left), Find(index, right), 0)

\* a part that is not in the index
MissingInfo == PartInfo(<<"p">>, MaxBlock + 1, MaxBlock + 1, 0, 0)

\* the infos a caller can pass
LevelQueryInfos == {p.info : p \in data_parts} \cup {MissingInfo}

\* a call of getMaxLevelInBetween
CallGetMaxLevelInBetween(left, right) ==
    /\ max_level' = [left |-> left, right |-> right,
                     threw |-> GetMaxLevelInBetween(DataPartsByInfo, left, right).threw,
                     level |-> GetMaxLevelInBetween(DataPartsByInfo, left, right).level]
    /\ UNCHANGED <<increment, committing_blocks, alloc_log, data_parts,
                   currently_merging_mutating_parts, tasks, merges_blocker, partition_blockers,
                   operations_lock, current_mutations_by_version, mutation_counters,
                   mutation_files, failed_parts, running_txns, kill, ins, mut, upd, ddl, opt,
                   sync_mutex, in_progress_columns, shutdown_called, shutdown_pc,
                   mutation_wait_mutex, waiter, mutations_loaded, tmp_mutation_files,
                   mutation_file_entries, dest_data_parts, dest_increment, lockers,
                   merges_with_ttl_counter, startup, scheduler, alter, committing_blocks_cv,
                   cleared, granted_roles>>

(***************************************************************************)
(* Initial states.                                                         *)
(***************************************************************************)
\* what loadDataParts finds on disk when the high-water mark is n
LoadedParts(n) == {Part(NewPartInfo(<<"p">>, k), "Active", PrehistoricTID) : k \in 1..n}

Init ==
    /\ increment \in 0..MaxInitialIncrement
    /\ committing_blocks = {}
    /\ alloc_log = <<>>
    /\ data_parts = LoadedParts(increment)
    /\ currently_merging_mutating_parts = {}
    /\ tasks = [t \in Tasks |-> IdleTask]
    /\ merges_blocker = 0
    /\ partition_blockers = [pid \in PartitionIds |-> 0]
    /\ operations_lock = "free"
    /\ current_mutations_by_version = <<>>
    /\ mutation_counters = 0
    /\ mutation_files = {}
    /\ failed_parts = {}
    /\ running_txns = {}
    /\ kill = IdleKill
    /\ ins = [i \in Inserters |-> IdleInsert]
    /\ mut = IdleMutation
    /\ upd = [u \in Updaters |-> IdleUpdate]
    /\ ddl = [d \in DdlThreads |-> IdleDdl]
    /\ opt = IdleOptimize
    /\ sync_mutex = "free"
    /\ in_progress_columns = {}
    /\ shutdown_called = FALSE
    /\ shutdown_pc = "idle"
    /\ mutation_wait_mutex = "free"
    /\ waiter = IdleWaiter
    /\ mutations_loaded = TRUE
    /\ tmp_mutation_files = {}
    /\ mutation_file_entries = <<>>
    /\ dest_data_parts = {}
    /\ dest_increment = 0
    /\ lockers = [th \in LockThreads |-> IdleLocker]
    /\ merges_with_ttl_counter = 0
    /\ startup = Constructed
    /\ scheduler = IdleScheduler
    /\ alter = IdleAlter
    /\ committing_blocks_cv = [u \in Updaters |-> "none"]
    /\ cleared = NotCleared
    /\ granted_roles = NoGrantedRoles
    /\ max_level = NoLevelCall

(***************************************************************************)
(* Parts, merges, mutations and partition operations.                      *)
(***************************************************************************)
Next ==
    \/ AttachPart(PrehistoricTID, <<"p">>)
    \/ \E t \in Tasks : ScheduleSelectMerge(t)
    \/ \E t \in Tasks : ScheduleTask(t)
    \/ \E t \in Tasks : ScheduleDropEntry(t)
    \/ \E t \in Tasks : TaskCommit(t)
    \/ \E t \in Tasks : TaskFail(t)
    \/ \E t \in Tasks : TaskRelease(t)
    \/ \E d \in DdlThreads : StopMergesAndWait(d, "drop")
    \/ \E d \in DdlThreads : StopMergesDrained(d)
    \/ \E d \in DdlThreads : StopMergesTimeout(d)
    \/ \E d \in DdlThreads : DropReadParts(d)
    \/ \E d \in DdlThreads : DropCommit(d)
    \/ \E d \in DdlThreads : DropClearEmptyParts(d)
    \/ ClearEmptyParts
    \/ \E d \in DdlThreads, replace \in BOOLEAN : ReplaceStopMerges(d, <<"p">>, replace)
    \/ \E d \in DdlThreads : ReplaceDrained(d)
    \/ \E d \in DdlThreads : ReplaceDrainTimeout(d)
    \/ \E d \in DdlThreads : AttachFromNothing(d)
    \/ \E d \in DdlThreads : ReplaceAllocateDropRange(d)
    \/ \E d \in DdlThreads : ReplaceCommit(d)
    \/ \E d \in DdlThreads : ReplaceReturn(d)
    \/ \E t \in Tasks, final \in BOOLEAN : OptimizeSelect(t, <<"p">>, final)
    \/ OptimizeFinalWait(<<"p">>)
    \/ \E t \in Tasks : OptimizeFinalRetry(t)
    \/ OptimizeFinalGiveUp

Spec == Init /\ [][Next]_vars

(***************************************************************************)
(* The mutations of one partition, with transactions.                      *)
(***************************************************************************)
NextMutations ==
    \/ \E tid \in Transactions : BeginTransaction(tid)
    \/ \E tid \in QueryTids : AttachPart(tid, <<"p">>)
    \/ \E tid \in QueryTids : StartMutationAllocate(tid)
    \/ StartMutationRegister
    \/ \E t \in Tasks : ScheduleSelectMerge(t)
    \/ \E t \in Tasks : ScheduleSelectMutate(t)
    \/ \E t \in Tasks : ScheduleTask(t)
    \/ \E t \in Tasks : ScheduleDropEntry(t)
    \/ \E t \in Tasks : TaskCommit(t)
    \/ \E t \in Tasks : TaskFail(t)
    \/ \E t \in Tasks : TaskRelease(t)
    \/ \E truncate \in BOOLEAN : ClearOldMutations(truncate)
    \/ KillMutationUnparsable
    \/ \E v \in 1..MaxBlock : KillMutationErase(v)
    \/ KillMutationFinish

SpecMutations == Init /\ [][NextMutations]_vars

(***************************************************************************)
(* What replaces parts in the registry: merges, mutations, DROP.           *)
(***************************************************************************)
NextCoverage ==
    \/ AttachPart(PrehistoricTID, <<"p">>)
    \/ StartMutationAllocate(PrehistoricTID)
    \/ StartMutationRegister
    \/ \E t \in Tasks : ScheduleSelectMerge(t)
    \/ \E t \in Tasks : ScheduleSelectMutate(t)
    \/ \E t \in Tasks : ScheduleTask(t)
    \/ \E t \in Tasks : ScheduleDropEntry(t)
    \/ \E t \in Tasks : TaskCommit(t)
    \/ \E t \in Tasks : TaskFail(t)
    \/ \E t \in Tasks : TaskRelease(t)
    \/ \E d \in DdlThreads : StopMergesAndWait(d, "drop")
    \/ \E d \in DdlThreads : StopMergesDrained(d)
    \/ \E d \in DdlThreads : StopMergesTimeout(d)
    \/ \E d \in DdlThreads : DropReadParts(d)
    \/ \E d \in DdlThreads : DropCommit(d)
    \/ \E d \in DdlThreads : DropClearEmptyParts(d)
    \/ ClearEmptyParts

SpecCoverage == Init /\ [][NextCoverage]_vars

(***************************************************************************)
(* The allocator alone: concurrent allocateBlockNumber calls of any kind.  *)
(***************************************************************************)
NextAllocator ==
    \/ \E op \in BlockOps : AllocateAndLog(op)
    \/ \E number \in 1..MaxBlock : ReleaseBlock(number)

SpecAllocator == Init /\ [][NextAllocator]_vars

(***************************************************************************)
(* Lightweight updates against inserts and mutations.                      *)
(***************************************************************************)
NextUpdate ==
    \/ \E i \in Inserters : InsertAllocate(i)
    \/ \E i \in Inserters : InsertCommit(i)
    \/ \E i \in Inserters : InsertRollback(i)
    \/ \E pid \in PartitionIds : AttachPart(PrehistoricTID, pid)
    \/ StartMutationAllocate(PrehistoricTID)
    \/ StartMutationRegister
    \/ \E u \in Updaters : UpdateGetLock(u, "async")
    \/ \E u \in Updaters : UpdateAllocate(u)
    \/ \E u \in Updaters : UpdateGetAllPartitionIds(u)
    \/ \E u \in Updaters : UpdatePassBarrier(u)
    \/ \E u \in Updaters : UpdateBarrierTimeout(u)
    \/ \E u \in Updaters : UpdateFinish(u)

SpecUpdate == Init /\ [][NextUpdate]_vars

(***************************************************************************)
(* The update locks: updates of every mode against each other.             *)
(***************************************************************************)
NextLocks ==
    \/ \E u \in Updaters, mode \in UpdateModes : UpdateGetLock(u, mode)
    \/ \E u \in Updaters, mode \in UpdateModes : UpdateLockTimeout(u, mode)
    \/ \E u \in Updaters : UpdateAllocate(u)
    \/ \E u \in Updaters : UpdateGetAllPartitionIds(u)
    \/ \E u \in Updaters : UpdatePassBarrier(u)
    \/ \E u \in Updaters : UpdateFinish(u)

SpecLocks == Init /\ [][NextLocks]_vars


(***************************************************************************)
(* A thread in waitForMutation against mutations, KILL MUTATION, shutdown. *)
(***************************************************************************)
NextWait ==
    \/ StartMutationAllocate(PrehistoricTID)
    \/ StartMutationRegister
    \/ \E t \in Tasks : ScheduleSelectMutate(t)
    \/ \E t \in Tasks : ScheduleTask(t)
    \/ \E t \in Tasks : ScheduleDropEntry(t)
    \/ \E t \in Tasks : TaskCommit(t)
    \/ \E t \in Tasks : TaskFail(t)
    \/ \E t \in Tasks : TaskRelease(t)
    \/ ScheduleNotify
    \/ \E v \in 1..MaxBlock : KillMutationErase(v)
    \/ KillMutationFinish
    \/ \E v \in 1..MaxBlock : WaitForMutation(v)
    \/ WaiterCheck
    \/ WaiterSleep
    \/ WaiterWake
    \/ WaiterReturn
    \/ ShutdownSetFlag
    \/ ShutdownNotify

\* every thread that can run does run, and a thread that asks for mutation_wait_mutex
\* gets it when it is free again and again
SpecWait ==
    /\ Init
    /\ [][NextWait]_vars
    /\ WF_vars(WaiterCheck)
    /\ WF_vars(WaiterSleep)
    /\ SF_vars(WaiterWake)
    /\ SF_vars(KillMutationFinish)
    /\ SF_vars(ShutdownNotify)

(***************************************************************************)
(* shutdown against the threads that wait: in waitForMutation and in       *)
(* waitForCommittingInsertsAndMutations.                                   *)
(***************************************************************************)
NextShutdown ==
    \/ \E i \in Inserters : InsertAllocate(i)
    \/ \E i \in Inserters : InsertCommit(i)
    \/ \E i \in Inserters : InsertRollback(i)
    \/ StartMutationAllocate(PrehistoricTID)
    \/ StartMutationRegister
    \/ \E u \in Updaters : UpdateGetLock(u, "async")
    \/ \E u \in Updaters : UpdateAllocate(u)
    \/ \E u \in Updaters : UpdateGetAllPartitionIds(u)
    \/ \E u \in Updaters : UpdatePassBarrier(u)
    \/ \E u \in Updaters : UpdateBarrierTimeout(u)
    \/ \E u \in Updaters : UpdateFinish(u)
    \/ \E v \in 1..MaxBlock : WaitForMutation(v)
    \/ WaiterCheck
    \/ WaiterSleep
    \/ WaiterWake
    \/ WaiterReturn
    \/ ShutdownSetFlag
    \/ ShutdownNotify

SpecShutdown ==
    /\ Init
    /\ [][NextShutdown]_vars
    /\ WF_vars(WaiterCheck)
    /\ WF_vars(WaiterSleep)
    /\ SF_vars(WaiterWake)
    /\ SF_vars(ShutdownNotify)

(***************************************************************************)
(* Startup: the constructor before loadMutations, then the mutations.      *)
(***************************************************************************)
\* the table as loadDataParts leaves it, with the mutation files a previous run left
\* on disk; their versions are block numbers no loaded part has
InitLoad ==
    /\ increment \in 0..MaxInitialIncrement
    /\ committing_blocks = {}
    /\ alloc_log = <<>>
    /\ data_parts = LoadedParts(increment)
    /\ currently_merging_mutating_parts = {}
    /\ tasks = [t \in Tasks |-> IdleTask]
    /\ merges_blocker = 0
    /\ partition_blockers = [pid \in PartitionIds |-> 0]
    /\ operations_lock = "free"
    /\ current_mutations_by_version = <<>>
    /\ mutation_counters = 0
    /\ mutation_files \in SUBSET ((increment + 1)..MaxBlock)
    /\ failed_parts = {}
    /\ running_txns = {}
    /\ kill = IdleKill
    /\ ins = [i \in Inserters |-> IdleInsert]
    /\ mut = IdleMutation
    /\ upd = [u \in Updaters |-> IdleUpdate]
    /\ ddl = [d \in DdlThreads |-> IdleDdl]
    /\ opt = IdleOptimize
    /\ sync_mutex = "free"
    /\ in_progress_columns = {}
    /\ shutdown_called = FALSE
    /\ shutdown_pc = "idle"
    /\ mutation_wait_mutex = "free"
    /\ waiter = IdleWaiter
    /\ mutations_loaded = FALSE
    /\ tmp_mutation_files \in SUBSET (1..MaxTmpFiles)
    /\ mutation_file_entries \in [mutation_files -> FileEntries]
    /\ dest_data_parts = {}
    /\ dest_increment = 0
    /\ lockers = [th \in LockThreads |-> IdleLocker]
    /\ merges_with_ttl_counter = 0
    /\ startup = Constructed
    /\ scheduler = IdleScheduler
    /\ alter = IdleAlter
    /\ committing_blocks_cv = [u \in Updaters |-> "none"]
    /\ cleared = NotCleared
    /\ granted_roles = NoGrantedRoles
    /\ max_level = NoLevelCall

NextLoad ==
    \/ LoadMutations
    \/ \E tid \in Transactions : BeginTransaction(tid)
    \/ \E tid \in QueryTids : StartMutationAllocate(tid)
    \/ StartMutationRegister
    \/ \E truncate \in BOOLEAN : ClearOldMutations(truncate)
    \/ KillMutationUnparsable
    \/ \E v \in 1..MaxBlock : KillMutationErase(v)
    \/ KillMutationFinish

SpecLoad == InitLoad /\ [][NextLoad]_vars

(***************************************************************************)
(* TRUNCATE between inserts, merges and mutations, with transactions.      *)
(***************************************************************************)
NextTruncate ==
    \/ \E tid \in Transactions : BeginTransaction(tid)
    \/ \E tid \in QueryTids : AttachPart(tid, <<"p">>)
    \/ StartMutationAllocate(PrehistoricTID)
    \/ StartMutationRegister
    \/ \E t \in Tasks : ScheduleSelectMerge(t)
    \/ \E t \in Tasks : ScheduleSelectMutate(t)
    \/ \E t \in Tasks : ScheduleTask(t)
    \/ \E t \in Tasks : ScheduleDropEntry(t)
    \/ \E t \in Tasks : TaskCommit(t)
    \/ \E t \in Tasks : TaskFail(t)
    \/ \E t \in Tasks : TaskRelease(t)
    \/ \E d \in DdlThreads, tid \in QueryTids : Truncate(d, tid)
    \/ \E d \in DdlThreads : TruncateReturn(d)

SpecTruncate == Init /\ [][NextTruncate]_vars

(***************************************************************************)
(* MOVE PARTITION TO TABLE against attaches and merges.                    *)
(***************************************************************************)
NextMove ==
    \/ AttachPart(PrehistoricTID, <<"p">>)
    \/ \E t \in Tasks : ScheduleSelectMerge(t)
    \/ \E t \in Tasks : ScheduleTask(t)
    \/ \E t \in Tasks : ScheduleDropEntry(t)
    \/ \E t \in Tasks : TaskCommit(t)
    \/ \E t \in Tasks : TaskFail(t)
    \/ \E t \in Tasks : TaskRelease(t)
    \/ \E d \in DdlThreads : StopMergesAndWait(d, "move")
    \/ \E d \in DdlThreads : StopMergesDrained(d)
    \/ \E d \in DdlThreads : StopMergesTimeout(d)
    \/ \E d \in DdlThreads : MoveReadParts(d)
    \/ \E d \in DdlThreads : MoveTooManyParts(d)
    \/ \E d \in DdlThreads : MoveNothing(d)
    \/ \E d \in DdlThreads : MoveCommit(d)
    \/ \E d \in DdlThreads : MoveRenameFails(d)
    \/ \E d \in DdlThreads : MoveCommitFails(d)
    \/ \E d \in DdlThreads : MoveReturn(d)

SpecMove == Init /\ [][NextMove]_vars

(***************************************************************************)
(* The lock order of the functions.                                        *)
(***************************************************************************)
NextLockOrder ==
    \/ \E th \in LockThreads, name \in LockPathNames : EnterFunction(th, name)
    \/ \E th \in LockThreads : TakeLock(th)
    \/ \E th \in LockThreads : ReleaseLock(th)
    \/ \E th \in LockThreads : LeaveFunction(th)

SpecLockOrder == Init /\ [][NextLockOrder]_vars

(***************************************************************************)
(* TTL merges: the booking of merges_with_ttl_counter.                     *)
(***************************************************************************)
NextTTL ==
    \/ AttachPart(PrehistoricTID, <<"p">>)
    \/ \E t \in Tasks : ScheduleSelectMerge(t)
    \/ \E t \in Tasks : ScheduleSelectTTLMerge(t)
    \/ ScheduleSelectTTLMergeNoSpace
    \/ \E t \in Tasks : ScheduleTask(t)
    \/ \E t \in Tasks : ScheduleDropEntry(t)
    \/ \E t \in Tasks : TaskCommit(t)
    \/ \E t \in Tasks : TaskFail(t)
    \/ \E t \in Tasks : TaskRelease(t)
    \/ SystemStopMerges
    \/ SystemStartMerges

SpecTTL == Init /\ [][NextTTL]_vars

(***************************************************************************)
(* startup and shutdown of the table, with the merges of the background.   *)
(***************************************************************************)
NextStartup ==
    \/ AttachPart(PrehistoricTID, <<"p">>)
    \/ \E is_static \in BOOLEAN : StartupClear(is_static)
    \/ StartupStartOperations
    \/ \E areBackgroundMovesNeeded \in BOOLEAN : StartupStartMoves(areBackgroundMovesNeeded)
    \/ StartupStartLoading
    \/ \E started \in BOOLEAN : StartupThrows(started)
    \/ Shutdown
    \/ ShutdownNotify
    \/ ShutdownFinish
    \/ ShutdownThrows
    \/ \E t \in Tasks : AssigneeSelectMerge(t)
    \/ \E t \in Tasks : ScheduleTask(t)
    \/ \E t \in Tasks : TaskCommit(t)
    \/ \E t \in Tasks : TaskRelease(t)

SpecStartup == Init /\ [][NextStartup]_vars

(***************************************************************************)
(* Mutation selection over the mutation maps of one transaction and the    *)
(* prehistoric one, with barrier commands, the AST limit and failures of   *)
(* the size validation.                                                    *)
(***************************************************************************)
SelectVersions == (2..MaxMutationVersion) \ {3}

SelectCommands ==
    {<<"UPDATE">>, <<"UPDATE", "UPDATE">>, <<"DROP_COLUMN">>, <<"UPDATE", "RENAME_COLUMN">>}

SelectEntries ==
    {[MutationEntry(tid) EXCEPT !.commands = commands] :
        tid \in {PrehistoricTID, "T1"}, commands \in SelectCommands}

SelectParts == {Part(NewPartInfo(<<"p">>, k), "Active", PrehistoricTID) : k \in {1, 3}}

InitSelectOver(entries) ==
    /\ increment = MaxMutationVersion
    /\ committing_blocks = {}
    /\ alloc_log = <<>>
    /\ data_parts \in SUBSET SelectParts \ {{}}
    /\ currently_merging_mutating_parts = {}
    /\ tasks = [t \in Tasks |-> IdleTask]
    /\ merges_blocker = 0
    /\ partition_blockers = [pid \in PartitionIds |-> 0]
    /\ operations_lock = "free"
    /\ \E versions \in SUBSET SelectVersions :
        /\ current_mutations_by_version \in [versions -> entries]
        /\ mutation_counters = Cardinality(versions)
        /\ mutation_files = versions
    /\ failed_parts = {}
    /\ running_txns \in {{}, {"T1"}}
    /\ kill = IdleKill
    /\ ins = [i \in Inserters |-> IdleInsert]
    /\ mut = IdleMutation
    /\ upd = [u \in Updaters |-> IdleUpdate]
    /\ ddl = [d \in DdlThreads |-> IdleDdl]
    /\ opt = IdleOptimize
    /\ sync_mutex = "free"
    /\ in_progress_columns = {}
    /\ shutdown_called = FALSE
    /\ shutdown_pc = "idle"
    /\ mutation_wait_mutex = "free"
    /\ waiter = IdleWaiter
    /\ mutations_loaded = TRUE
    /\ tmp_mutation_files = {}
    /\ mutation_file_entries = <<>>
    /\ dest_data_parts = {}
    /\ dest_increment = 0
    /\ lockers = [th \in LockThreads |-> IdleLocker]
    /\ merges_with_ttl_counter = 0
    /\ startup = Constructed
    /\ scheduler = IdleScheduler
    /\ alter = IdleAlter
    /\ committing_blocks_cv = [u \in Updaters |-> "none"]
    /\ cleared = NotCleared
    /\ granted_roles = NoGrantedRoles
    /\ max_level = NoLevelCall

InitSelect == InitSelectOver(SelectEntries)

\* one scheduler call at a time
SelectTasks == {CHOOSE t \in Tasks : TRUE}

NextSelect ==
    \/ \E t \in SelectTasks, failing \in {{}} \cup {{v} : v \in SelectVersions} :
            SelectPartsToMutate(t, failing)
    \/ \E t \in SelectTasks : ScheduleTask(t)
    \/ \E t \in SelectTasks : TaskCommit(t)
    \/ \E t \in SelectTasks : TaskRelease(t)

SpecSelect == InitSelect /\ [][NextSelect]_vars

(***************************************************************************)
(* The calls of scheduleDataProcessingJob, one after the other, against    *)
(* SYSTEM STOP MERGES, shutdown, mutations and the tasks of the pool.      *)
(***************************************************************************)
NextSchedule ==
    \/ AttachPart(PrehistoricTID, <<"p">>)
    \/ StartMutationAllocate(PrehistoricTID)
    \/ StartMutationRegister
    \/ ScheduleJobShutdown
    \/ ScheduleJobBlocked
    \/ \E t \in Tasks : ScheduleJobSelectMerge(t)
    \/ \E t \in Tasks : ScheduleJobSelectMutate(t)
    \/ ScheduleJobSelectNothing
    \/ ScheduleJobEntryCancelled
    \/ \E scheduled \in BOOLEAN : ScheduleJobSubmit(scheduled)
    \/ ScheduleJobCleanup
    \/ \E timer \in CleanupTimers : TimerElapses(timer)
    \/ \E t \in Tasks : TaskCommit(t)
    \/ \E t \in Tasks : TaskRelease(t)
    \/ SystemStopMerges
    \/ SystemStartMerges
    \/ ShutdownSetFlag

SpecSchedule == Init /\ [][NextSchedule]_vars

(***************************************************************************)
(* OPTIMIZE PARTITION ... FINAL against the merges of the background pool. *)
(***************************************************************************)
NextOptimize ==
    \/ \E partition_id \in PartitionIds : AttachPart(PrehistoricTID, partition_id)
    \/ \E t \in Tasks : ScheduleSelectMerge(t)
    \/ \E t \in Tasks : ScheduleTask(t)
    \/ \E t \in Tasks : TaskCommit(t)
    \/ \E t \in Tasks : TaskRelease(t)
    \/ \E t \in Tasks, partition_id \in PartitionIds : SelectInPartitionSelects(t, partition_id)
    \/ \E partition_id \in PartitionIds : SelectInPartitionWaits(partition_id)
    \/ \E partition_id \in PartitionIds : SelectInPartitionReturnsFailure(partition_id)
    \/ SelectInPartitionTick
    \/ SelectInPartitionWakes
    \/ SelectInPartitionTimeout

SpecOptimize == Init /\ [][NextOptimize]_vars

(***************************************************************************)
(* The failures of a selection: the size validation of an entry throws,    *)
(* the reservation of space fails. The entries are prehistoric.            *)
(***************************************************************************)
InitSelectFailures ==
    /\ InitSelect
    /\ running_txns = {}
    /\ \A v \in DOMAIN current_mutations_by_version :
            current_mutations_by_version[v].tid = PrehistoricTID

NextSelectFailures ==
    \/ \E t \in SelectTasks, failing \in {{}} \cup {{v} : v \in SelectVersions} :
            SelectPartsToMutate(t, failing)
    \/ \E failing \in {{}} \cup {{v} : v \in SelectVersions} : SelectPartsToMutateNoSpace(failing)
    \/ SelectPartsToMergeNoSpace
    \/ \E t \in SelectTasks : ScheduleTask(t)
    \/ \E t \in SelectTasks : TaskCommit(t)
    \/ \E t \in SelectTasks : TaskRelease(t)

SpecSelectFailures == InitSelectFailures /\ [][NextSelectFailures]_vars

(***************************************************************************)
(* ALTER and mutate() under the alter-lock, the mutations they start, the  *)
(* part mutations of the pool, KILL MUTATION and shutdown.                 *)
(***************************************************************************)
NextAlter ==
    \/ AttachPart(PrehistoricTID, <<"p">>)
    \/ MutateLock
    \/ MutateTimeout
    \/ MutateAllocate
    \/ MutateRegister
    \/ \E barrier \in BOOLEAN : AlterBegin(barrier)
    \/ AlterReadPrevMutation
    \/ AlterWaitForMutation
    \/ AlterWaitReturns
    \/ AlterChangeMetadata
    \/ AlterAllocate
    \/ AlterRegister
    \/ WaiterCheck
    \/ WaiterSleep
    \/ WaiterWake
    \/ \E t \in SelectTasks : ScheduleSelectMutate(t)
    \/ \E t \in SelectTasks : ScheduleTask(t)
    \/ \E t \in SelectTasks : TaskCommit(t)
    \/ \E t \in SelectTasks : TaskFail(t)
    \/ \E t \in SelectTasks : TaskRelease(t)
    \/ \E v \in DOMAIN current_mutations_by_version : KillMutationErase(v)
    \/ KillMutationFinish
    \/ ShutdownSetFlag
    \/ ShutdownNotify

SpecAlter == Init /\ [][NextAlter]_vars

(***************************************************************************)
(* Several updates waiting for the committing blocks before theirs.        *)
(***************************************************************************)
NextCommitWait ==
    \/ \E i \in Inserters : InsertAllocate(i)
    \/ \E i \in Inserters : InsertRelease(i)
    \/ \E u \in Updaters : UpdateGetLock(u, "async")
    \/ \E u \in Updaters : UpdateAllocate(u)
    \/ \E u \in Updaters : UpdateGetAllPartitionIds(u)
    \/ \E u \in Updaters : WaitBegins(u)
    \/ \E u \in Updaters : WaitWakes(u)
    \/ \E u \in Updaters : WaitTimeout(u)
    \/ \E u \in Updaters : UpdateRelease(u)

SpecCommitWait == Init /\ [][NextCommitWait]_vars

(***************************************************************************)
(* The progress of the prehistoric mutations when the scheduler keeps      *)
(* running and every task succeeds; one entry may be as large as           *)
(* max_expanded_ast_elements.                                              *)
(***************************************************************************)
ProgressCommands == SelectCommands \cup {<<"UPDATE", "UPDATE", "UPDATE", "UPDATE">>}

ProgressEntries == {[MutationEntry(PrehistoricTID) EXCEPT !.commands = commands] :
                        commands \in ProgressCommands}

InitProgress ==
    /\ InitSelectOver(ProgressEntries)
    /\ running_txns = {}

NextProgress ==
    \/ \E t \in SelectTasks : SelectPartsToMutate(t, {})
    \/ \E t \in SelectTasks : ScheduleTask(t)
    \/ \E t \in SelectTasks : TaskCommit(t)
    \/ \E t \in SelectTasks : TaskRelease(t)

\* the scheduler is called again and again, a selected task is run and ends
FairProgress ==
    /\ WF_vars(\E t \in SelectTasks : SelectPartsToMutate(t, {}))
    /\ WF_vars(\E t \in SelectTasks : ScheduleTask(t))
    /\ WF_vars(\E t \in SelectTasks : TaskCommit(t))
    /\ WF_vars(\E t \in SelectTasks : TaskRelease(t))

SpecProgress == InitProgress /\ [][NextProgress]_vars /\ FairProgress

(***************************************************************************)
(* The mutation counters under startMutation, part mutations, KILL and     *)
(* clearOldMutations with either value of finished_mutations_to_keep.      *)
(***************************************************************************)
NextCounters ==
    \/ AttachPart(PrehistoricTID, <<"p">>)
    \/ StartMutationAllocate(PrehistoricTID)
    \/ StartMutationRegister
    \/ \E t \in SelectTasks : ScheduleSelectMutate(t)
    \/ \E t \in SelectTasks : ScheduleTask(t)
    \/ \E t \in SelectTasks : TaskCommit(t)
    \/ \E t \in SelectTasks : TaskRelease(t)
    \/ \E setting \in KeepSettings, truncate \in BOOLEAN :
            ClearOldMutationsKeeping(setting, truncate)
    \/ \E v \in 1..MaxBlock : KillMutationErase(v)
    \/ KillMutationFinish

SpecCounters == Init /\ [][NextCounters]_vars

(***************************************************************************)
(* Two MOVE PARTITION statements between the tables A and B.               *)
(***************************************************************************)
NextMoveLocks ==
    \/ \E th \in LockThreads, direction \in MoveDirections : MoveBegins(th, direction)
    \/ \E th \in LockThreads : MoveTakesLock(th)
    \/ \E th \in LockThreads : MoveReleasesLock(th)
    \/ \E th \in LockThreads : MoveReturns(th)

SpecMoveLocks == Init /\ [][NextMoveLocks]_vars

(***************************************************************************)
(* A GrantedRoles object under every call that changes it.                 *)
(***************************************************************************)
NextGrantedRoles ==
    \/ \E roles_ \in RoleSets : Grant(roles_)
    \/ \E roles_ \in RoleSets : GrantWithAdminOption(roles_)
    \/ \E roles_ \in RoleSets : Revoke(roles_)
    \/ \E roles_ \in RoleSets : RevokeAdminOption(roles_)
    \/ \E other \in ValidGrantedRoles : MakeUnion(other)
    \/ \E other \in ValidGrantedRoles : MakeIntersection(other)
    \/ \E old_to_new_ids \in IdMaps : ReplaceDependencies(old_to_new_ids)
    \/ \E src \in ValidGrantedRoles, ids \in RoleSets : CopyDependenciesFrom(src, ids)
    \/ \E ids \in RoleSets : RemoveDependencies(ids)

SpecGrantedRoles == Init /\ [][NextGrantedRoles]_vars

(***************************************************************************)
(* getMaxLevelInBetween over the part index that inserts and merges build. *)
(***************************************************************************)
NextMaxLevel ==
    \/ AttachPart(PrehistoricTID, <<"p">>)
    \/ \E t \in SelectTasks : ScheduleSelectMerge(t)
    \/ \E t \in SelectTasks : ScheduleTask(t)
    \/ \E t \in SelectTasks : TaskCommit(t)
    \/ \E t \in SelectTasks : TaskRelease(t)
    \/ \E left, right \in LevelQueryInfos : CallGetMaxLevelInBetween(left, right)

SpecMaxLevel == Init /\ [][NextMaxLevel]_vars
(***************************************************************************)
(* Properties of the allocator.                                            *)
(***************************************************************************)
\* C1: the numbers allocateBlockNumber returns, whatever the op kinds of the calls,
\* are each one more than the counter value the call found, pairwise distinct and
\* strictly increasing in allocation order; consecutive allocations NewPart,
\* Mutation, Update from counter value n-1 return n, n+1, n+2.
C1_AllocationsStrictlyIncreasing ==
    /\ \A i \in 1..Len(alloc_log) : alloc_log[i].number = alloc_log[i].before + 1
    /\ \A i, j \in 1..Len(alloc_log) : i < j => alloc_log[i].number < alloc_log[j].number
    /\ \A i \in 1..(Len(alloc_log) - 2) :
        (/\ alloc_log[i].op = "NewPart"
         /\ alloc_log[i + 1].op = "Mutation"
         /\ alloc_log[i + 2].op = "Update")
        => /\ alloc_log[i + 1].number = alloc_log[i].before + 2
           /\ alloc_log[i + 2].number = alloc_log[i].before + 3

\* three consecutive allocations NewPart, Mutation, Update have happened
C1_Witness ==
    \E i \in 1..(Len(alloc_log) - 2) :
        /\ alloc_log[i].op = "NewPart"
        /\ alloc_log[i + 1].op = "Mutation"
        /\ alloc_log[i + 2].op = "Update"
        /\ alloc_log[i].number = alloc_log[i].before + 1
        /\ alloc_log[i + 2].number = alloc_log[i].before + 3

(***************************************************************************)
(* Properties of the lightweight-update coordinator.                       *)
(***************************************************************************)
\* a NewPart or Mutation block below the number is in the committing set
InsertOrMutationBelow(number) ==
    \E b \in committing_blocks : b.number < number /\ b.op \in {"NewPart", "Mutation"}

\* C6: an update with Update block B leaves waitForCommittingInsertsAndMutations(B)
\* for the patch sink only when no NewPart or Mutation block below B is in the
\* committing set, and it leaves it with TIMEOUT_EXCEEDED only when there is one:
\* Update blocks below B do not hold it back.
C6_BarrierWaitsForInsertsAndMutations ==
    [][\A u \in Updaters :
        /\ (upd[u].pc = "waiting" /\ upd'[u].pc = "sink")
            => ~InsertOrMutationBelow(upd[u].block)
        /\ (upd[u].pc = "waiting" /\ upd'[u].pc = "idle")
            => /\ upd'[u].result = "TIMEOUT_EXCEEDED"
               /\ InsertOrMutationBelow(upd[u].block)]_vars

\* an update has passed the barrier while a smaller Update block is still committing
C6_Witness ==
    \E u \in Updaters :
        /\ upd[u].pc = "sink"
        /\ \E b \in committing_blocks : b.op = "Update" /\ b.number < upd[u].block

\* C7: the partition snapshot of an update with block B that has passed the barrier
\* contains every non-patch partition that holds an Active part with a block number
\* below B, whatever inserts committed while the update waited at the barrier.
C7_SnapshotHoldsEveryPartitionBelowBlock ==
    \A u \in Updaters :
        upd[u].pc = "sink" =>
            \A p \in ActiveParts(data_parts) :
                (~IsPatchPartition(p.info.partition_id) /\ p.info.max_block < upd[u].block)
                    => p.info.partition_id \in upd[u].snapshot

\* the update is past getLockForLightweightUpdate and has not finished
UpdateInProgress(u) == HoldsUpdateLock(u)

\* C9 (as the code has it): two updates in sync mode are never in progress together,
\* and two updates in auto mode are in progress together only with disjoint affected
\* column sets; the mode is each update's own setting, and an update of another mode
\* is not held back.
C9_SameModeUpdatesExclude ==
    \A u, v \in Updaters :
        (u # v /\ UpdateInProgress(u) /\ UpdateInProgress(v)) =>
            /\ ~(upd[u].mode = "sync" /\ upd[v].mode = "sync")
            /\ (upd[u].mode = "auto" /\ upd[v].mode = "auto")
                => upd[u].columns \cap upd[v].columns = {}

\* two auto-mode updates with disjoint column sets are in progress together
C9_Witness ==
    \E u, v \in Updaters :
        /\ u # v
        /\ UpdateInProgress(u) /\ UpdateInProgress(v)
        /\ upd[u].mode = "auto" /\ upd[v].mode = "auto"
        /\ upd[u].columns # {} /\ upd[v].columns # {}
        /\ upd[u].columns \cap upd[v].columns = {}

\* C9 (as stated): while an update in sync mode is in progress no other update is,
\* and auto-mode updates with intersecting column sets are never in progress together.
C9_SyncUpdateExcludesEveryUpdate ==
    \A u, v \in Updaters :
        (u # v /\ UpdateInProgress(u) /\ UpdateInProgress(v)) =>
            /\ upd[u].mode # "sync"
            /\ (upd[u].mode = "auto" /\ upd[v].mode = "auto")
                => upd[u].columns \cap upd[v].columns = {}

C3_BusyPartsAreActive ==
    \A t \in Tasks :
        tasks[t].pc \in {"selected", "running"}
            => tasks[t].parts \subseteq ActiveInfos(data_parts)

HeldBlocks ==
    {ins[i].block : i \in {j \in Inserters : ins[j].pc = "allocated"}}
        \cup {mut.block : x \in {y \in {1} : mut.pc = "allocated"}}
        \cup {upd[u].block : u \in {w \in Updaters : upd[w].pc \in {"allocated", "waiting", "sink"}}}
        \cup {ddl[d].block : d \in {c \in DdlThreads : ddl[c].pc = "allocated"}}

\* C8: every block in the committing set belongs to an operation that has not
\* finished: an operation that installed its part, rolled back or failed has removed
\* its block.
C8_NoCompletedOperationLeavesABlock ==
    \A b \in committing_blocks : b.number \in HeldBlocks

(***************************************************************************)
(* Properties of the mutation registry.                                    *)
(***************************************************************************)
\* the parts getIncompleteMutationsStatus looks at for an entry
PartsSeenFor(entry) == GetVisibleDataPartsVector(TryGetTransactionForMutation(entry))

KillReturnsNotFound ==
    kill.pc = "idle" /\ kill'.pc = "idle" /\ kill' # kill

\* C10: killMutation(V) with V in the map takes the entry out of the map, decrements
\* the counters unless the entry was done, and then rolls the origin transaction
\* back, cancels the running part mutations of V, deletes the file and returns
\* CancelSent; with V not in the map it returns NotFound and leaves the map, the
\* counters and the files as they are, and leaves the backoff table as it is when the
\* id cannot be parsed.
C10_KillMutationEffects ==
    [][/\ (kill.pc = "idle" /\ kill'.pc = "erased")
            => /\ kill'.version \in DOMAIN current_mutations_by_version
               /\ DOMAIN current_mutations_by_version' =
                    DOMAIN current_mutations_by_version \ {kill'.version}
               /\ \A v \in DOMAIN current_mutations_by_version' :
                    current_mutations_by_version'[v] = current_mutations_by_version[v]
               /\ mutation_counters' =
                    IF current_mutations_by_version[kill'.version].is_done
                    THEN mutation_counters ELSE mutation_counters - 1
       /\ (kill.pc = "erased" /\ kill'.pc = "idle")
            => /\ kill'.result = "CancelSent"
               /\ kill.version \notin mutation_files'
               /\ kill.tid \notin running_txns'
               /\ UNCHANGED <<current_mutations_by_version, mutation_counters>>
               /\ \A t \in Tasks :
                    (/\ tasks[t].pc = "running" /\ tasks[t].kind = "mutate"
                     /\ tasks[t].future.mutation = kill.version)
                        => tasks'[t].is_cancelled
       /\ KillReturnsNotFound
            => /\ kill'.result = "NotFound"
               /\ kill'.version \notin DOMAIN current_mutations_by_version
               /\ UNCHANGED <<current_mutations_by_version, mutation_counters, mutation_files>>
               /\ (kill'.version = NoBlock => UNCHANGED failed_parts)
      ]_vars

\* a mutation of a transaction was killed while a part mutation ran: the entry and
\* the file are gone, the transaction is not running, the task is cancelled
C10_Witness ==
    /\ kill.pc = "idle" /\ kill.result = "CancelSent"
    /\ kill.tid # PrehistoricTID /\ kill.tid \notin running_txns
    /\ kill.version \notin DOMAIN current_mutations_by_version
    /\ kill.version \notin mutation_files
    /\ \E t \in Tasks : tasks[t].is_cancelled /\ tasks[t].future.mutation = kill.version

\* C10 as stated for an absent entry: NotFound leaves the map, the counters, the
\* files and the backoff table unchanged.
C10_NotFoundChangesNothing ==
    [][KillReturnsNotFound
        => UNCHANGED <<current_mutations_by_version, mutation_counters, mutation_files,
                       failed_parts>>]_vars


(***************************************************************************)
(* waitForMutation against KILL MUTATION and shutdown.                     *)
(***************************************************************************)
\* killMutation has erased the entry of this version, and may still be running
KillErased(version) ==
    kill.version = version /\ (kill.pc = "erased" \/ kill.result = "CancelSent")

\* the wait of a thread that has slept ends in this step
WaitEnds == waiter.pc = "locked" /\ waiter.slept /\ waiter'.pc = "returned"

\* C11 (as amended): a thread that sleeps in waitForMutation(V) while killMutation(V)
\* runs is woken and returns; a thread that sleeps while its wait predicate holds
\* (mutation done, failure recorded, entry killed, shutdown) is woken; when the wait
\* for a killed V ends getMutationsStatus has no row for V; and once killMutation(V)
\* has returned mutation_<V>.txt does not exist
C11_KilledWaiterIsWoken ==
    /\ (waiter.pc \in {"blocking", "sleeping"} /\ KillErased(waiter.version))
            ~> (waiter.pc = "returned")
    /\ (waiter.pc \in {"blocking", "sleeping"} /\ MutationWaitCheck(waiter.version))
            ~> (waiter.pc \notin {"blocking", "sleeping"})
    /\ [][WaitEnds /\ KillErased(waiter.version)
            => waiter.version \notin DOMAIN GetMutationsStatus']_vars
    /\ [](kill.pc = "idle" /\ kill.result = "CancelSent"
            => kill.version \notin mutation_files)

\* a thread that slept in the wait for V has returned after killMutation(V) did
C11_Witness ==
    /\ waiter.pc = "returned"
    /\ waiter.slept
    /\ kill.pc = "idle"
    /\ kill.result = "CancelSent"
    /\ kill.version = waiter.version

\* C11 (as stated): when the wait for a killed V ends, getMutationsStatus has no row
\* for V and mutation_<V>.txt does not exist
C11_ReturnedWaiterFindsNoFile ==
    [][WaitEnds /\ KillErased(waiter.version)
        => /\ waiter.version \notin DOMAIN GetMutationsStatus'
           /\ waiter.version \notin mutation_files']_vars

MutationsQuiescent == mutations_loaded /\ mut.pc = "idle" /\ kill.pc = "idle"

\* the versions whose file held an entry of a transaction without a csn
UncommittedOnDisk ==
    {v \in DOMAIN mutation_file_entries :
        /\ mutation_file_entries[v].tid # PrehistoricTID
        /\ mutation_file_entries[v].csn = "unknown"}

DropPartitionReturns(d) ==
    ddl[d].pc = "clearing" /\ ddl[d].partition_id # <<>> /\ ddl'[d].pc = "idle"

TruncateEnds(d) == ddl[d].pc = "idle" /\ ddl'[d].pc = "truncated"

\* the block numbers handed out so far that the table still knows
KnownBlockNumbers ==
    {p.info.max_block : p \in data_parts}
        \cup {p.info.mutation : p \in data_parts}
        \cup DOMAIN current_mutations_by_version
        \cup mutation_files
        \cup {b.number : b \in committing_blocks}

BetweenDrainAndSwap(d) == ddl[d].pc \in {"stopped", "covering", "cloning", "allocated"}

\* merges are cancelled for what the operation of d affects: the partition of
\* REPLACE / ATTACH PARTITION FROM, the whole table for the other operations
MergesBlockedFor(d) ==
    IF ddl[d].op \in {"replace", "attach_from"}
    THEN IsCancelledForPartition(ddl[d].partition_id)
    ELSE IsCancelled

\* C16: from the return of its drain wait until its part swap, every partition
\* operation holds its merges blocker, and no merge or mutation of the affected
\* partition is selected or running.
C16_BlockerHeldUntilSwap ==
    \A d \in DdlThreads :
        BetweenDrainAndSwap(d)
            => /\ MergesBlockedFor(d)
               /\ \A t \in Tasks :
                    tasks[t].pc \in {"selected", "running"}
                        => \A info \in tasks[t].parts :
                            ddl[d].op \in {"replace", "attach_from"}
                                => info.partition_id # ddl[d].partition_id

\* REPLACE PARTITION of d has swapped the parts and not yet returned
ReplaceCompleted(d) == ddl[d].pc = "replaced" /\ ddl[d].op = "replace"

\* C17: once REPLACE PARTITION has swapped the parts, no Active part of the
\* partition has a max-block at or below the block of the drop range.
C17_NoActivePartBelowDropRange ==
    \A d \in DdlThreads :
        ReplaceCompleted(d)
            => \A info \in InfosInPartition(data_parts, ddl[d].partition_id) :
                    info.max_block > ddl[d].block

\* the parts MOVE PARTITION of d gave to the destination table
MovedTo(d) == {p \in dest_data_parts :
                /\ p.info.min_block > ddl[d].block
                /\ p.info.min_block <= ddl[d].block + Cardinality(ddl[d].parts)}

\* C18: after the critical section of MOVE PARTITION, whether it succeeded or threw,
\* either the source parts are Active here and no moved part is Active in the
\* destination, or no source part is Active here and every moved part is Active in
\* the destination.
C18_MoveIsAllOrNothing ==
    \A d \in DdlThreads :
        ddl[d].pc \in {"moved", "move_failed"}
            => \/ /\ ddl[d].parts \subseteq ActiveInfos(data_parts)
                  /\ \A p \in MovedTo(d) : p.state # "Active"
               \/ /\ ddl[d].parts \cap ActiveInfos(data_parts) = {}
                  /\ Cardinality(MovedTo(d)) = Cardinality(ddl[d].parts)
                  /\ \A p \in MovedTo(d) : p.state = "Active"

\* the position of a lock in the order table lock, operations-lock, background
\* mutex, parts-lock, committing_blocks_mutex, mutation_wait_mutex
HierarchyRank(name) ==
    CASE name = "table" -> 1
      [] name = "operations" -> 2
      [] name = "currently_processing_in_background_mutex" -> 3
      [] name = "parts" -> 4
      [] name = "committing_blocks_mutex" -> 5
      [] name = "mutation_wait_mutex" -> 6

\* the same order with mutation_wait_mutex before the background mutex
WaitFirstRank(name) ==
    CASE name = "table" -> 1
      [] name = "operations" -> 2
      [] name = "mutation_wait_mutex" -> 3
      [] name = "currently_processing_in_background_mutex" -> 4
      [] name = "parts" -> 5
      [] name = "committing_blocks_mutex" -> 6

\* C19 as stated: no thread holds a lock it took while holding a lock that is later
\* in the hierarchy, mutation_wait_mutex being the last.
C19_LocksTakenInHierarchyOrder ==
    \A th \in LockThreads :
        \A i, j \in 1..Len(lockers[th].held) :
            i < j => HierarchyRank(lockers[th].held[i]) < HierarchyRank(lockers[th].held[j])

\* C19: no thread holds a lock it took while holding a lock that is later in the
\* order table lock, operations-lock, mutation_wait_mutex, background mutex,
\* parts-lock, committing_blocks_mutex; in particular no thread takes
\* mutation_wait_mutex while holding the background mutex or the parts-lock.
C19_LocksTakenInWaitFirstOrder ==
    \A th \in LockThreads :
        \A i, j \in 1..Len(lockers[th].held) :
            i < j => WaitFirstRank(lockers[th].held[i]) < WaitFirstRank(lockers[th].held[j])

\* waitForMutation evaluates its predicate: it holds mutation_wait_mutex, the
\* background mutex and the parts-lock, taken in this order, while another thread is
\* inside scheduleDataProcessingJob
C19_Witness ==
    \E th, other \in LockThreads :
        /\ lockers[th].held = <<"mutation_wait_mutex",
                                "currently_processing_in_background_mutex", "parts">>
        /\ lockers[other].path = "scheduleDataProcessingJob"
        /\ lockers[other].held = <<"table">>

\* the TTL merges that are being scheduled, scheduled or running
OutstandingTTLMerges == {t \in Tasks : tasks[t].pc # "free" /\ IsTTLMergeType(tasks[t].merge_type)}

\* C20: the number of bookings of TTL merges equals the number of TTL merges that are
\* scheduled or running (a merge the scheduler has selected and is about to schedule
\* counted with them): a booking whose merge is not scheduled has been released.
C20_BookingsMatchTTLMerges ==
    merges_with_ttl_counter = Cardinality(OutstandingTTLMerges)

(***************************************************************************)
(* startup and shutdown.                                                   *)
(***************************************************************************)
\* the part of the state a call of shutdown can change
ShutdownEffects ==
    <<shutdown_called, shutdown_pc, merges_blocker, waiter, tasks, data_parts,
      startup.operations_assignee, startup.moves_assignee, startup.loading_task,
      startup.pc, startup.shutdown_caller>>

\* C21: when startup throws after it entered its try block, shutdown has run before
\* the exception leaves startup, so nothing of the table runs in the background then;
\* an exception of that shutdown terminates the process; a call of shutdown that
\* finds shutdown_called set changes nothing; a static storage starts nothing.
C21_FailedStartupShutsDown ==
    /\ [](startup.pc = "rethrown" => (shutdown_pc = "finished" /\ ~BackgroundRunning))
    /\ [](startup.is_static => ~BackgroundRunning)
    /\ [][(startup.pc = "catch" /\ shutdown_pc' = "thrown") => startup'.pc = "terminated"]_vars
    /\ [][(startup.pc # "terminated" /\ startup'.pc = "terminated")
            => (startup.pc = "catch" /\ shutdown_pc' = "thrown")]_vars
    /\ [][(shutdown_called /\ startup'.shutdown_calls # startup.shutdown_calls)
            => UNCHANGED ShutdownEffects]_vars

\* startup has thrown after the operations assignee had started and a merge had been
\* selected, and shutdown was called again afterwards
C21_Witness ==
    /\ startup.pc = "rethrown"
    /\ startup.shutdown_calls = 2
    /\ \E p \in data_parts : p.info.level > 0

(***************************************************************************)
(* The increment after the constructor.                                    *)
(***************************************************************************)
\* the versions of the mutation_* files the constructor found, and of those it loaded
MutationVersionsOnDisk == DOMAIN mutation_file_entries

MutationVersionsLoaded ==
    {v \in DOMAIN mutation_file_entries : CommittedOnLoad(mutation_file_entries[v])}

\* the increment is at least every number of the set, and a block number allocated
\* by startMutation is greater than every number of the set
IncrementIsAbove(numbers) ==
    /\ \A n \in numbers : increment >= n
    /\ mut.pc = "allocated" => \A n \in numbers : mut.block > n

\* C22 (as amended): after loadDataParts and loadMutations the increment is >= the
\* max block number of every loaded part and >= the version of every loaded mutation
\* entry, so a block number allocated afterwards is greater than every block number
\* of a loaded part and every version of a loaded mutation entry
C22_IncrementAboveLoaded ==
    mutations_loaded =>
        /\ IncrementIsAbove({p.info.max_block : p \in data_parts})
        /\ IncrementIsAbove(MutationVersionsLoaded)

\* loadMutations has loaded an entry whose version is above every part, another file
\* was discarded, and startMutation has allocated the next version
C22_Witness ==
    /\ mutations_loaded
    /\ mut.pc = "allocated"
    /\ data_parts # {}
    /\ \E v \in MutationVersionsLoaded : \A p \in data_parts : v > p.info.max_block
    /\ MutationVersionsLoaded # MutationVersionsOnDisk

\* C22 (as stated): the same, and a block number allocated afterwards is greater than
\* the version of every mutation_* file found on disk
C22_IncrementAboveEverythingOnDisk ==
    mutations_loaded =>
        /\ IncrementIsAbove({p.info.max_block : p \in data_parts})
        /\ IncrementIsAbove(MutationVersionsLoaded)
        /\ IncrementIsAbove(MutationVersionsOnDisk)

(***************************************************************************)
(* DROP PARTITION against a merge in progress.                             *)
(***************************************************************************)
\* DROP PARTITION of a partition commits its empty parts in this step
DropPartitionCommits(d) ==
    /\ ddl[d].pc = "covering"
    /\ ddl[d].partition_id # <<>>
    /\ ddl'[d].pc = "clearing"

\* the parts the step has made Active
InstalledParts == ActiveParts(data_parts') \ ActiveParts(data_parts)

\* no merge or mutation is selected or runs
NoMergeInProgress ==
    /\ currently_merging_mutating_parts = {}
    /\ \A t \in Tasks : tasks[t].pc = "free"

\* the DROP has waited for the merges, and the parts it read become Outdated
DropWaitsAndOutdates(d) ==
    /\ NoMergeInProgress
    /\ ddl[d].parts \cap ActiveInfos(data_parts') = {}
    /\ \A info \in ddl[d].parts : \E p \in data_parts' : p.info = info /\ p.state = "Outdated"

SelectedMutations == {t \in Tasks : tasks[t].kind = "mutate" /\ tasks[t].pc \in {"selected", "running"}}

\* the versions the entry of the task applies: (source data version, V_last]
SquashedVersions(t) ==
    {v \in DOMAIN current_mutations_by_version :
        v > DataVersion(SourceOf(tasks[t])) /\ v <= tasks[t].future.mutation}

\* the commands of the entries of these versions, in ascending version order
RECURSIVE CommandsOf(_)
CommandsOf(versions) ==
    IF versions = {} THEN <<>>
    ELSE current_mutations_by_version[MinOf(versions)].commands
            \o CommandsOf(versions \ {MinOf(versions)})

\* the map above the part is UPDATE, UPDATE, DROP COLUMN of one transaction
IsUpdateUpdateDrop(versions) ==
    /\ Cardinality(versions) = 3
    /\ \A v, w \in versions :
            current_mutations_by_version[v].tid = current_mutations_by_version[w].tid
    /\ \A v \in versions :
            /\ current_mutations_by_version[v].latest_fail_reason = ""
            /\ current_mutations_by_version[v].commands =
                    IF v = MaxOf(versions) THEN <<"DROP_COLUMN">> ELSE <<"UPDATE">>

\* C24: an entry with a barrier command is squashed with no other entry: the entry
\* selected for a part applies either entries without a barrier command or the one
\* barrier entry that is the first above the part; with UPDATE, UPDATE, DROP COLUMN
\* of one transaction and no failure the entry selected for a part below all three
\* has the version of the second UPDATE, and the entry selected for the part it
\* makes has the version of the DROP COLUMN and its commands alone
C24_BarrierIsNotSquashed ==
    \A t \in SelectedMutations :
        /\ \A v \in SquashedVersions(t) :
            ContainBarrierCommand(current_mutations_by_version[v].commands)
                => (SquashedVersions(t) = {v}
                    /\ tasks[t].commands = current_mutations_by_version[v].commands)
        /\ LET above == MutationsAbove(SourceOf(tasks[t]).max_block)
           IN IsUpdateUpdateDrop(above) =>
                IF SourceOf(tasks[t]).mutation = 0
                THEN /\ tasks[t].future.mutation = MaxOf(above \ {MaxOf(above)})
                     /\ tasks[t].commands = <<"UPDATE", "UPDATE">>
                ELSE /\ SourceOf(tasks[t]).mutation = MaxOf(above \ {MaxOf(above)})
                     /\ tasks[t].future.mutation = MaxOf(above)
                     /\ tasks[t].commands = <<"DROP_COLUMN">>

\* UPDATE, UPDATE, DROP COLUMN: the part mutated to the second UPDATE is selected for
\* the DROP COLUMN
C24_Witness ==
    \E t \in SelectedMutations :
        /\ IsUpdateUpdateDrop(MutationsAbove(SourceOf(tasks[t]).max_block))
        /\ SourceOf(tasks[t]).mutation # 0
        /\ tasks[t].commands = <<"DROP_COLUMN">>

\* C25: the entry selected for a part applies the commands of every map entry with
\* version in (data version of the part, V_last], concatenated in ascending version
\* order and starting at the first entry above the data version; these entries have
\* the tid of the first; the future part has the info of the source part with
\* mutation = V_last, which is above the data version of the source
C25_BatchIsThePrefixAboveThePart ==
    \A t \in SelectedMutations :
        LET source == SourceOf(tasks[t])
            last == tasks[t].future.mutation
            first == MinOf(MutationsAbove(DataVersion(source)))
        IN /\ last \in DOMAIN current_mutations_by_version
           /\ last > DataVersion(source)
           /\ first \in SquashedVersions(t)
           /\ tasks[t].commands = CommandsOf(SquashedVersions(t))
           /\ tasks[t].commands # <<>>
           /\ \A v \in SquashedVersions(t) :
                current_mutations_by_version[v].tid = current_mutations_by_version[first].tid
           /\ tasks[t].tid = current_mutations_by_version[first].tid
           /\ tasks[t].future = [source EXCEPT !.mutation = last]

\* the entry selected squashes two entries of the transaction and stops at an entry
\* of another one
C25_Witness ==
    \E t \in SelectedMutations :
        /\ Cardinality(SquashedVersions(t)) = 2
        /\ Len(tasks[t].commands) = 3
        /\ tasks[t].tid = "T1"
        /\ \E v \in MutationsAbove(tasks[t].future.mutation) :
                current_mutations_by_version[v].tid = PrehistoricTID

(***************************************************************************)
(* updateMutationEntriesErrors.                                            *)
(***************************************************************************)
\* the mutation task reports its result in this step
ReportsResult(t, is_successful) ==
    /\ tasks[t].kind = "mutate"
    /\ tasks[t].pc = "running"
    /\ tasks'[t].pc = IF is_successful THEN "committed" ELSE "failed"

\* the entries of the range
ReportedEntries(t) == EntriesInRange(SourceOf(tasks[t]), tasks[t].future)

\* no entry enters or leaves the map, the entries outside the range are unchanged,
\* and a thread that sleeps in waitForMutation is notified
OnlyRangeIsTouched(t) ==
    /\ DOMAIN current_mutations_by_version' = DOMAIN current_mutations_by_version
    /\ \A v \in DOMAIN current_mutations_by_version \ ReportedEntries(t) :
            current_mutations_by_version'[v] = current_mutations_by_version[v]
    /\ waiter.pc = "sleeping" => waiter'.pc = "notified"

\* the failure is recorded in every entry of the range
FailureIsRecorded(t) ==
    \A v \in ReportedEntries(t) :
        /\ current_mutations_by_version'[v].latest_failed_part = SourceOf(tasks[t])
        /\ current_mutations_by_version'[v].latest_fail_reason # ""

\* the entries of the range whose failed part the result covers are cleared, the
\* others unchanged
CoveredFailuresAreCleared(t) ==
    \A v \in ReportedEntries(t) :
        LET entry == current_mutations_by_version[v]
        IN IF entry.latest_failed_part # NoPart /\ Contains(tasks[t].future, entry.latest_failed_part)
           THEN /\ current_mutations_by_version'[v].latest_failed_part = NoPart
                /\ current_mutations_by_version'[v].latest_fail_reason = ""
           ELSE current_mutations_by_version'[v] = entry

\* C26 (as amended): the report touches the entries of the range only; a failure is
\* recorded in each of them, and the source part gets a backoff window when the entry
\* with the mutation version of the result part is one of them, otherwise the backoff
\* table is unchanged; a success clears those whose failed part the result covers;
\* the waiters are notified
C26_ReportTouchesTheRange ==
    [][\A t \in Tasks :
        /\ ReportsResult(t, FALSE) =>
            /\ OnlyRangeIsTouched(t)
            /\ FailureIsRecorded(t)
            /\ failed_parts' = IF tasks[t].future.mutation \in ReportedEntries(t)
                               THEN failed_parts \cup {SourceOf(tasks[t])}
                               ELSE failed_parts
        /\ ReportsResult(t, TRUE) =>
            /\ OnlyRangeIsTouched(t)
            /\ CoveredFailuresAreCleared(t)]_vars

\* a failure was reported for a range that leaves an entry of the map out: the
\* entry of the range has the failed part, the other has none, the part is backed off
C26_Witness ==
    \E t \in Tasks :
        /\ tasks[t].kind = "mutate"
        /\ tasks[t].pc = "failed"
        /\ SourceOf(tasks[t]) \in failed_parts
        /\ \E v \in ReportedEntries(t) :
                current_mutations_by_version[v].latest_failed_part = SourceOf(tasks[t])
        /\ \E v \in DOMAIN current_mutations_by_version \ ReportedEntries(t) :
                current_mutations_by_version[v].latest_failed_part = NoPart

\* C26 (as stated): the report touches the entries of the range only; a failure is
\* recorded in each of them and the source part gets a backoff window; a success
\* clears those whose failed part the result covers; the waiters are notified
C26_ReportRegistersBackoff ==
    [][\A t \in Tasks :
        /\ ReportsResult(t, FALSE) =>
            /\ OnlyRangeIsTouched(t)
            /\ FailureIsRecorded(t)
            /\ ReportedEntries(t) # {} => SourceOf(tasks[t]) \in failed_parts'
        /\ ReportsResult(t, TRUE) =>
            /\ OnlyRangeIsTouched(t)
            /\ CoveredFailuresAreCleared(t)]_vars

(***************************************************************************)
(* The backoff table.                                                      *)
(***************************************************************************)
\* C27: after a successful mutation of a part the backoff table does not hold the
\* part, whatever entries the task squashed, and KILL MUTATION leaves no part that
\* failed on the killed mutation in the table
C27_SuccessAndKillClearBackoff ==
    [][/\ \A t \in Tasks : ReportsResult(t, TRUE) => SourceOf(tasks[t]) \notin failed_parts'
       /\ (kill.pc = "idle" /\ kill'.pc = "erased") => failed_parts' = {}]_vars

(***************************************************************************)
(* clearOldMutations.                                                      *)
(***************************************************************************)
\* a step of clearOldMutations that changes the map
ClearsOldMutations ==
    /\ current_mutations_by_version' # current_mutations_by_version
    /\ UNCHANGED <<mut, tasks, kill, mutations_loaded>>

RemovedMutations == DOMAIN current_mutations_by_version \ DOMAIN current_mutations_by_version'

\* the finished entries: no Active part has a data version below them
FinishedMutations == VersionsUpToMinPart

\* the finished entries below the first entry of a transaction
FinishedBeforeTransactions ==
    {v \in FinishedMutations :
        \A w \in DOMAIN current_mutations_by_version :
            w <= v => current_mutations_by_version[w].tid = PrehistoricTID}

\* the entries removed are the oldest of the map, all of them of the set, and their
\* files are deleted; of the set either all are kept (it has no more than keep) or
\* the keep most recent
RemovesOldestOf(finished, keep) ==
    /\ RemovedMutations \subseteq finished
    /\ \A v \in RemovedMutations : \A w \in DOMAIN current_mutations_by_version :
            w < v => w \in RemovedMutations
    /\ mutation_files' = mutation_files \ RemovedMutations
    /\ IF Cardinality(finished) <= keep
       THEN RemovedMutations = {}
       ELSE Cardinality(finished \ RemovedMutations) = keep

CallStarts ==
    /\ CallBegins
    /\ scheduler'.elapsed = scheduler.elapsed
    /\ scheduler' # scheduler

\* the call returns in this step
CallReturns == scheduler.pc # "returned" /\ scheduler'.pc = "returned"

\* the entries made and not yet given to the pool or destroyed
SelectedEntries == {t \in Tasks : tasks[t].pc = "selected"}

\* C29: a call of scheduleDataProcessingJob holds at most one entry and gives at most
\* one task to the pool; the entry of a mutation is made only with a non-empty map and
\* no merge entry; when shutdown was called or the merges blocker is cancelled the
\* call selects nothing and returns false; when the partition of the entry is
\* cancelled the call returns false and the entry is destroyed, not submitted
C29_OneTaskPerCall ==
    /\ [](/\ Cardinality(SelectedEntries) <= 1
          /\ Cardinality(scheduler.submitted) <= 1
          /\ scheduler.pc = "selected" <=> SelectedEntries = {scheduler.task}
          /\ (scheduler.submitted # {} => scheduler.result))
    /\ [][/\ (CallStarts /\ (shutdown_called \/ IsCancelled))
                => /\ scheduler'.pc = "returned"
                   /\ ~scheduler'.result
                   /\ UNCHANGED <<tasks, currently_merging_mutating_parts>>
          /\ (CallStarts /\ scheduler'.pc = "selected" /\ tasks'[scheduler'.task].kind = "mutate")
                => /\ current_mutations_by_version # <<>>
                   /\ \A t \in Tasks : tasks'[t].kind # "merge" \/ tasks'[t] = tasks[t]
          /\ (/\ CallReturns
              /\ scheduler.pc = "selected"
              /\ IsCancelledForPartition(tasks[scheduler.task].future.partition_id))
                => /\ ~scheduler'.result
                   /\ scheduler'.submitted = {}
                   /\ tasks'[scheduler.task].pc = "free"
                   /\ currently_merging_mutating_parts' = Untagged(tasks[scheduler.task].parts)]_vars

\* a call has submitted a mutation task and returned true, for the part that the merge
\* of an earlier call made
C29_Witness ==
    /\ scheduler.pc = "returned"
    /\ scheduler.result
    /\ scheduler.submitted = {"mutate"}
    /\ \E t \in Tasks :
        /\ tasks[t].kind = "mutate"
        /\ tasks[t].pc = "running"
        /\ \A info \in tasks[t].parts : info.level > 0

\* C30: a call that returns without a merge or mutation task given to the pool has
\* scheduled the cleanup task of every timer that had elapsed, and returns true iff it
\* scheduled one; also when the merges are blocked
C30_CleanupWheneverNoTask ==
    [][(CallReturns /\ scheduler'.submitted = {})
        => /\ scheduler.elapsed \subseteq scheduler'.common_tasks
           /\ scheduler'.result <=> scheduler'.common_tasks # {}]_vars

(***************************************************************************)
(* OPTIMIZE ... FINAL: when it waits and for how long.                     *)
(***************************************************************************)
\* a part of the partition was tagged when the wait began
HintedPartitionWasBusy == \E info \in opt.seen : info.partition_id = opt.partition_id

\* C31: OPTIMIZE FINAL of a partition waits only when a part of that partition is
\* busy, and all its waits together last at most
\* lock_acquire_timeout_for_background_operations
C31_WaitsForHintedPartitionWithinTimeout ==
    /\ opt.pc = "waiting" => HintedPartitionWasBusy
    /\ opt.total <= lock_acquire_timeout_for_background_operations

(***************************************************************************)
(* NOT_ENOUGH_SPACE while a merge or a mutation is selected.               *)
(***************************************************************************)
\* a selection is abandoned with NOT_ENOUGH_SPACE in this step
AbandonedForSpace == scheduler.pc # "threw" /\ scheduler'.pc = "threw"

\* the entries the step has changed
ChangedEntries ==
    {v \in DOMAIN current_mutations_by_version :
        current_mutations_by_version'[v] # current_mutations_by_version[v]}

\* C32: a selection abandoned with NOT_ENOUGH_SPACE tags no part and registers no
\* backoff window, and the only entries it leaves changed are those whose size
\* validation threw in the same selection, with latest_fail_reason set
C32_NoSpaceRecordsNoFailure ==
    [][AbandonedForSpace
        => /\ UNCHANGED <<currently_merging_mutating_parts, failed_parts, tasks>>
           /\ DOMAIN current_mutations_by_version' = DOMAIN current_mutations_by_version
           /\ \A v \in ChangedEntries :
                /\ NeedsSizeValidation(current_mutations_by_version[v].commands)
                /\ current_mutations_by_version'[v] =
                        [current_mutations_by_version[v] EXCEPT !.latest_fail_reason = "error"]]_vars

\* a selection was abandoned with NOT_ENOUGH_SPACE after the size validation of an
\* entry threw in it
C32_Witness ==
    /\ scheduler.pc = "threw"
    /\ currently_merging_mutating_parts = {}
    /\ \E v \in DOMAIN current_mutations_by_version :
            current_mutations_by_version[v].latest_fail_reason # ""

\* C32 as stated: the state is as before the selection
C32_NoSpaceLeavesStateAsBefore ==
    [][AbandonedForSpace
        => UNCHANGED <<currently_merging_mutating_parts, failed_parts,
                       current_mutations_by_version>>]_vars

(***************************************************************************)
(* The size validation of an entry throws during the selection.            *)
(***************************************************************************)
\* the size validation of entry v throws in this step and is recorded
ValidationThrowsAt(v) ==
    /\ v \in DOMAIN current_mutations_by_version
    /\ current_mutations_by_version[v].latest_fail_reason = ""
    /\ current_mutations_by_version'[v].latest_fail_reason # ""
    /\ current_mutations_by_version'[v].latest_failed_part = NoPart

\* every Active part has the mutation of version v applied
AppliedToEveryPart(v) ==
    /\ ActiveParts(data_parts) # {}
    /\ \A p \in ActiveParts(data_parts) : DataVersion(p.info) >= v

\* C35: a selection in which the size validation of entry V throws squashes neither V
\* nor a later entry into the batch of a part below V, registers no backoff window and
\* sets V's latest_fail_reason; when V has been applied to the parts, its
\* latest_fail_reason is empty again
C35_ValidationFailureSurfacesAndClears ==
    /\ [][\A v \in DOMAIN current_mutations_by_version :
            ValidationThrowsAt(v)
                => /\ failed_parts' = failed_parts
                   /\ \A t \in Tasks :
                        (tasks'[t] # tasks[t] /\ DataVersion(SourceOf(tasks'[t])) < v)
                            => tasks'[t].future.mutation < v]_vars
    /\ [](\A v \in DOMAIN current_mutations_by_version :
            AppliedToEveryPart(v) => current_mutations_by_version[v].latest_fail_reason = "")

(***************************************************************************)
(* ALTER and mutate() under the alter-lock.                                *)
(***************************************************************************)
\* the versions the step puts into the map
RegisteredVersions ==
    DOMAIN current_mutations_by_version' \ DOMAIN current_mutations_by_version

\* the mutation is done, killed or failed
DoneKilledOrFailed(version) ==
    \/ ~GetIncompleteMutationsStatus(version).found
    \/ GetIncompleteMutationsStatus(version).is_done
    \/ current_mutations_by_version[version].latest_fail_reason # ""

\* C33: a mutation version is allocated and registered only by the holder of the
\* alter-lock, so none is registered between the start of an ALTER and its own
\* mutation; and an ALTER with a barrier command changes the metadata only when the
\* last mutation registered before it is done, killed or failed
C33_AlterAndMutateAreSerialized ==
    /\ [](mut.pc = "allocated" => alter.lock # "free")
    /\ [][/\ RegisteredVersions # {}
                => \/ alter.lock = "alter" /\ alter.pc = "allocated"
                   \/ alter.lock = "mutate" /\ alter.mpc = "allocated"
          /\ (alter.barrier /\ alter'.metadata # alter.metadata /\ alter.prev_mutation # NoBlock)
                => DoneKilledOrFailed(alter.prev_mutation)]_vars

\* C34: after a removeCommittingBlock no update stays blocked, unnotified, in
\* waitForCommittingInsertsAndMutations with a condition that has become true:
\* every such waiter is woken and returns before its timeout, however many wait
C34_EveryReadyWaiterIsWoken ==
    \A u \in Updaters :
        committing_blocks_cv[u] = "asleep" => ~AllCommitted(committing_blocks, upd[u].block)

\* C36: with a scheduler that keeps being called and tasks that succeed, every
\* prehistoric entry of the map is eventually applied to every Active part, whatever
\* the size of its commands
C36_EveryPrehistoricEntryIsEventuallyDone ==
    <>(\A v \in DOMAIN current_mutations_by_version : AppliedToEveryPart(v))

\* C37: the counters count each entry of the map once until it is marked done or
\* killed, and when clearOldMutations has returned they count exactly the unfinished
\* entries (the finished ones have stopped being counted), for every value of
\* finished_mutations_to_keep
C37_CountersCountUnfinishedEntries ==
    /\ mutation_counters =
            Cardinality({v \in DOMAIN current_mutations_by_version :
                            ~current_mutations_by_version[v].is_done})
    /\ cleared.returned => cleared.counters = cleared.unfinished

\* the thread holds the parts lock of one table and its next step is the parts lock
\* of the other, which is not free
HoldsAndWaits(th, held, wanted) ==
    /\ held \in HeldBy(th)
    /\ MoveStep(th) = Lock(wanted)
    /\ ~MoveLockIsFree(wanted)

\* C38: two MOVE PARTITION statements in opposite directions between A and B never
\* reach a state in which each holds the parts lock of one table and waits for the
\* parts lock of the other
C38_OppositeMovesDoNotDeadlock ==
    \A x, y \in LockThreads :
        ~(HoldsAndWaits(x, "A.parts", "B.parts") /\ HoldsAndWaits(y, "B.parts", "A.parts"))

\* the ids of the elements, one after the other
RECURSIVE ElementIds(_)
ElementIds(elements) ==
    IF elements = <<>> THEN <<>> ELSE elements[1].ids \o ElementIds(Tail(elements))

\* C39: roles_with_admin_option is a subset of roles after every call; so a role
\* granted with admin option is granted, a revoked role is neither, and the id lists
\* getElements returns hold every granted role exactly once
C39_AdminOptionImpliesGranted ==
    /\ granted_roles.roles_with_admin_option \subseteq granted_roles.roles
    /\ \A r \in Roles : IsGrantedWithAdminOption(r) => IsGranted(r)
    /\ granted_roles.last.name = "revoke"
            => \A r \in granted_roles.last.ids : ~IsGranted(r) /\ ~IsGrantedWithAdminOption(r)
    /\ LET ids == ElementIds(GetElements(granted_roles))
       IN /\ \A i, j \in 1..Len(ids) : ids[i] = ids[j] => i = j
          /\ {ids[i] : i \in 1..Len(ids)} = granted_roles.roles

\* ids were replaced in both sets, and getElements has an element of either kind
C39_Witness ==
    /\ granted_roles.last.name = "replaceDependencies"
    /\ Len(GetElements(granted_roles)) = 2
    /\ granted_roles.roles_with_admin_option # {}

\* the infos of the index from left to right, both ends included
InclusiveRange(left, right) ==
    {info \in {p.info : p \in data_parts} :
        /\ info = left \/ PartInfoLess(left, info)
        /\ info = right \/ PartInfoLess(info, right)}

\* C40: a call of getMaxLevelInBetween(left, right) throws when a part is missing from
\* the index or right precedes left, and otherwise returns the maximum level of the
\* parts of the index from left to right, both ends included
C40_MaxLevelOverInclusiveRange ==
    [][max_level' # max_level =>
        LET left == max_level'.left
            right == max_level'.right
            infos == {p.info : p \in data_parts}
        IN IF left \notin infos \/ right \notin infos \/ PartInfoLess(right, left)
           THEN max_level'.threw
           ELSE /\ ~max_level'.threw
                /\ max_level'.level = MaxOf({info.level : info \in InclusiveRange(left, right)})]_vars
====
